---- MODULE Spec2Model ----
(***************************************************************************)
(* Model of the vsc-mcp bridge: the host-side SSE session registry         *)
(* (packages/extension/src/sse-http-server.ts), the reconnect engine       *)
(* (remoteClient.ts), the protocol proxy (proxyServer.ts) and the process  *)
(* lifecycle supervisor (stdioMain.ts).                                    *)
(*                                                                         *)
(* Node runs one callback at a time; a handler gives up control only at an *)
(* await.  Every action below is one such run-to-the-next-await segment of *)
(* a handler, so the interleavings of the model are the interleavings the  *)
(* event loop allows.                                                      *)
(***************************************************************************)
EXTENDS Integers, Sequences, FiniteSets, TLC

VARIABLES
    \* ---- SseHttpServer (session registry) ----
    transports,           \* Record<sessionId, transport>: the keys, in insertion order
    lastActiveSessionId,  \* string | undefined
    heartbeats,           \* Record<sessionId, Timeout>: the keys
    timers,               \* the sessions whose setInterval timer has not been cleared
    pendingMessages,      \* JSONRPCMessage[]
    stream,               \* per session: the state of its HTTP response stream
    handled,              \* per session: the messages the transport has handled
    nextId,               \* the next fresh session id (randomUUID)
    req,                  \* the HTTP request handlers and their local variables
    response,             \* the last HTTP response a POST handler wrote: [req, status]
    serverStatus,         \* this.serverStatus: running or stopped
    mcpServer,            \* the McpServer given to the constructor: open or closed
    httpServer,           \* this.httpServer: listening, or closed / undefined
    \* ---- DiscoveryStore (process-local) and its HTTP endpoints ----
    discoveryStore,       \* const discoveryStore: DiscoveryRecord[]
    now,                  \* Date.now(), in ms
    reg,                  \* the POST /register handlers and their local variables
    doReg,                \* the running doRegister of the periodic registration
    storeResponse,        \* the response POST /register or GET /discovery is writing
    \* ---- discovery.ts and connectWithReconnects (reconnect engine) ----
    SSE_PORT,             \* let SSE_PORT: number | undefined (module state)
    workspaceFolder,      \* whether the workspaceFolder argument was given
    maxAttempts,          \* env.PROXY_RETRY_LIMIT
    attempt,              \* let attempt = 0
    port,                 \* let port
    bridgePc,             \* where connectWithReconnects stands
    connectCalls,         \* calls of client.connect so far
    connectFails,         \* rejected calls of client.connect so far
    resets,               \* calls of resetSsePort so far
    rediscoveries,        \* failures that took the 'continue' path (re-discovery)
    fetches,              \* discovery requests of the running resolveSsePortWithRetry
    thrown,               \* the message of the error connectWithReconnects threw
    backoffMs,            \* const backoffMs of the last delay slept, 0 before the first
    handle,               \* what connectWithReconnects returned: the client it wraps
    closeCalls,           \* the calls of the handle's close(), in order
    resolvePc,            \* where a direct call of resolveSsePortWithRetry stands
    responses,            \* the discovery responses that call has received, in order
    resolved,             \* the value that call returned
    \* ---- createProxyServer (protocol proxy) ----
    request,              \* per downstream request: its method and params
    rpc,                  \* per downstream request: its handler's position
    upstream,             \* the RemoteApi calls started, in order
    sent,                 \* the JSON-RPC responses written downstream, in order
    \* ---- stdioMain (process lifecycle) ----
    main,                 \* where the body of stdioMain stands
    remoteClose,          \* let remoteClose: assigned or undefined
    server,               \* let server: assigned or undefined
    shuttingDown,         \* let shuttingDown = false
    parentWatch,          \* the 2 s parent poll: running or not
    forceExit,            \* the 1500 ms force-exit timer: armed or not
    graceful,             \* where the body of graceful stands
    awaiting,             \* how the close call being awaited will settle
    bodyRuns,             \* runs of the body of graceful (past the shuttingDown guard)
    gracefulCalls,        \* calls of graceful
    remoteCloseCalls,     \* calls of remoteClose
    onceSignals,          \* signals whose process.once listener is still installed
    listeners,            \* the stdio and unhandled-error listeners are installed
    errorLog,             \* lines written by logger.error
    exited,               \* process.exit was called
    exitCode,             \* the code it was called with
    shutdownSteps,        \* what the body of graceful did so far, in order
    startupSteps,         \* what createProxyServer and the wiring did so far, in order
    \* ---- createRemoteApi, workspace-scoped variant (tool bridge) ----
    currentPort,          \* let currentPort: the port the bridge believes it is connected to
    clientPort,           \* the SDK client: the port it is connected to, or closed
    tool,                 \* per call of RemoteApi.callTool: its position and locals
    \* ---- readEnv and isNoServerError (pure functions of the proxy) ----
    rawEnv,               \* the environment snapshot getEnv() returns
    envResult,            \* what readEnv(getEnv) returned or threw
    err,                  \* the value isNoServerError is called with
    classified            \* what isNoServerError(err) returned

regVars == <<transports, lastActiveSessionId, heartbeats, timers, pendingMessages,
             stream, handled, nextId, req, response, serverStatus>>

bridgeVars == <<SSE_PORT, workspaceFolder, maxAttempts, attempt, port, bridgePc,
                connectCalls, connectFails, resets, rediscoveries, fetches, thrown, backoffMs, handle, closeCalls>>

proxyVars == <<request, rpc, upstream, sent>>

srvVars == <<mcpServer, httpServer>>

discVars == <<resolvePc, responses, resolved>>

storeVars == <<discoveryStore, now, reg, doReg, storeResponse>>

lifeVars == <<main, remoteClose, server, shuttingDown, parentWatch, forceExit, graceful,
              awaiting, bodyRuns, gracefulCalls, remoteCloseCalls, onceSignals,
              listeners, errorLog, exited, exitCode, shutdownSteps, startupSteps>>

toolVars == <<currentPort, clientPort, tool>>

fnVars == <<rawEnv, envResult, err, classified>>

vars == <<regVars, srvVars, storeVars, discVars, bridgeVars, proxyVars, lifeVars, toolVars,
          fnVars>>

(***************************************************************************)
(* Bounds                                                                  *)
(***************************************************************************)
\* HTTP requests handled in one run of the server
MaxReq == 3
\* request handlers suspended at an await at the same time
MaxInFlight == 2
\* the largest env.PROXY_RETRY_LIMIT
MaxRetryLimit == 9
\* failures of one call that take the re-discovery path
MaxRediscoveries == 2
\* discovery requests one resolveSsePortWithRetry call makes
MaxFetches == 2
\* downstream tools/call requests in one run of the proxy
MaxCalls == 3
\* downstream requests of the other methods in one run of the proxy
MaxForwards == 2
\* calls of graceful in one run of the process
MaxTriggers == 3
\* calls of RemoteApi.callTool in one run of the tool bridge
MaxToolCalls == 2
\* discovery requests of one direct call of resolveSsePortWithRetry
MaxPolls == 3
\* how far the clock runs, in sweep intervals
MaxTicks == 3
\* POST /register handlers at a time
MaxHandlers == 1
\* calls of the upstream handle's close()
MaxCloses == 2

(***************************************************************************)
(* Session registry: SseHttpServer                                         *)
(***************************************************************************)
NoSession == 0
NoBody == 0
NoStatus == 0

Requests == 1..MaxReq
SessionIds == 1..MaxReq
\* a session id issued before this server instance started (stale after a handover)
StaleId == MaxReq + 1
\* POST / takes the branches of POST /messages: only /sse is tested for
PostPaths == {"/sse", "/messages"}

Range(s) == {s[i] : i \in 1..Len(s)}
Remove(s, id) == SelectSeq(s, LAMBDA x : x # id)

\* this.transports[id] is defined
Registered(id) == id \in Range(transports)

IdleReq == [pc |-> "idle", method |-> "GET", sid |-> NoSession, body |-> NoBody,
            keys |-> <<>>, i |-> 0, session |-> NoSession, toFlush |-> <<>>,
            target |-> NoSession]

\* a handler that returned
Done == [IdleReq EXCEPT !.pc = "done"]

NoResponse == [req |-> 0, status |-> NoStatus]

\* t.close(): the SDK transport ends its response stream
EndStream(st, id) == [st EXCEPT ![id] = IF @ = "open" THEN "ended" ELSE @]

\* for (const id of keys): the first index from i on whose transport is still
\* defined; on an undefined one t.close() throws inside the try, the delete is a
\* no-op and the loop goes on without suspending
RECURSIVE NextDefined(_, _, _)
NextDefined(keys, i, regd) ==
    IF i > Len(keys) THEN i
    ELSE IF keys[i] \in regd THEN i
    ELSE NextDefined(keys, i + 1, regd)

\* closeCurrentConnection, from its entry to its first await (or to its end when
\* there is nothing to close); the caller then awaits its promise
BeginClose(r, base) ==
    LET keys == transports IN
    IF keys = <<>>
    THEN /\ lastActiveSessionId' = NoSession
         /\ stream' = stream
         /\ req' = [req EXCEPT ![r] = [base EXCEPT !.pc = "register", !.keys = keys, !.i = 1]]
    ELSE /\ lastActiveSessionId' = lastActiveSessionId
         /\ stream' = EndStream(stream, keys[1])
         /\ req' = [req EXCEPT ![r] = [base EXCEPT !.pc = "closing", !.keys = keys, !.i = 1]]

InFlight == {q \in Requests : req[q].pc \notin {"idle", "done"}}

\* a slot may be taken once the previous one has been used (slots are symmetric)
FreeSlot(r) ==
    /\ req[r].pc = "idle"
    /\ IF r = 1 THEN TRUE ELSE req[r - 1].pc # "idle"
    /\ Cardinality(InFlight) < MaxInFlight

\* an HTTP request arrives: the listener accepts it
CanArrive(r) ==
    /\ FreeSlot(r)
    /\ httpServer = "listening"

\* GET /sse, up to the first await inside closeCurrentConnection
GetSse(r) ==
    /\ CanArrive(r)
    /\ BeginClose(r, [IdleReq EXCEPT !.method = "GET"])
    /\ UNCHANGED <<transports, heartbeats, timers, pendingMessages, handled, nextId, response,
                   serverStatus>>

\* a closeCurrentConnection that forgets the delete after the await
CloseResume_KeepsSession(r) ==
    /\ req[r].pc = "closing"
    /\ LET keys == req[r].keys
           j == req[r].i + 1
       IN /\ transports' = transports
          /\ IF j <= Len(keys)
             THEN /\ stream' = EndStream(stream, keys[j])
                  /\ lastActiveSessionId' = lastActiveSessionId
                  /\ req' = [req EXCEPT ![r].i = j]
             ELSE /\ stream' = stream
                  /\ lastActiveSessionId' = NoSession
                  /\ req' = [req EXCEPT ![r].pc = "register", ![r].i = j]
    /\ UNCHANGED <<heartbeats, timers, pendingMessages, handled, nextId, response, serverStatus>>

\* closeCurrentConnection resumed after await t.close(): delete this.transports[id],
\* then on to the next transport or to the end of the function
CloseResume(r) ==
    /\ req[r].pc = "closing"
    /\ LET keys == req[r].keys
           id == keys[req[r].i]
           left == Remove(transports, id)
           j == NextDefined(keys, req[r].i + 1, Range(left))
       IN /\ transports' = left
          /\ IF j <= Len(keys)
             THEN /\ stream' = EndStream(stream, keys[j])
                  /\ lastActiveSessionId' = lastActiveSessionId
                  /\ req' = [req EXCEPT ![r].i = j]
             ELSE /\ stream' = stream
                  /\ lastActiveSessionId' = NoSession
                  /\ req' = [req EXCEPT ![r].pc = "register", ![r].i = j]
    /\ UNCHANGED <<heartbeats, timers, pendingMessages, handled, nextId, response, serverStatus>>

\* new SSEServerTransport; this.transports[id] = transport; lastActiveSessionId = id;
\* heartbeat; res.on('close'|'error'); up to await this.mcpServer.connect(transport)
Register(r) ==
    /\ req[r].pc = "register"
    /\ req[r].method \in {"GET", "POST"}
    /\ nextId <= MaxReq
    /\ transports' = Append(transports, nextId)
    /\ lastActiveSessionId' = nextId
    /\ heartbeats' = heartbeats \cup {nextId}
    /\ timers' = timers \cup {nextId}
    /\ stream' = [stream EXCEPT ![nextId] = "open"]
    /\ nextId' = nextId + 1
    /\ req' = [req EXCEPT ![r].pc = "connecting", ![r].session = nextId,
                          ![r].keys = <<>>, ![r].i = 0]
    /\ UNCHANGED <<pendingMessages, handled, response, serverStatus>>

\* transport.handleMessage(msg) on session s: handled, or it throws and the
\* catch only logs
HandleMessage(s, msg, ok) ==
    handled' = IF ok THEN [handled EXCEPT ![s] = Append(@, msg)] ELSE handled

\* the flush loop after a handleMessage: suspended on the next await while
\* messages are left, else the handler returns (nothing follows the last await)
AfterFlush(me, rest) ==
    IF rest = <<>> THEN Done ELSE [me EXCEPT !.pc = "flushing", !.toFlush = rest]

\* a flush that gives up when the first message fails
GetConnected_StopsOnFailure(r) ==
    /\ req[r].pc = "connecting" /\ req[r].method = "GET"
    /\ IF pendingMessages = <<>>
       THEN /\ req' = [req EXCEPT ![r] = Done]
            /\ UNCHANGED <<pendingMessages, handled>>
       ELSE /\ pendingMessages' = <<>>
            /\ \E ok \in BOOLEAN :
                  /\ HandleMessage(req[r].session, Head(pendingMessages), ok)
                  /\ req' = [req EXCEPT ![r] =
                                IF ok THEN AfterFlush(req[r], Tail(pendingMessages))
                                ELSE Done]
    /\ UNCHANGED <<transports, lastActiveSessionId, heartbeats, timers, stream, nextId, response,
                   serverStatus>>

\* GET /sse after mcpServer.connect resolved: splice the queue and start the flush
GetConnected(r) ==
    /\ req[r].pc = "connecting" /\ req[r].method = "GET"
    /\ IF pendingMessages = <<>>
       THEN /\ req' = [req EXCEPT ![r] = Done]
            /\ UNCHANGED <<pendingMessages, handled>>
       ELSE /\ pendingMessages' = <<>>
            /\ \E ok \in BOOLEAN : HandleMessage(req[r].session, Head(pendingMessages), ok)
            /\ req' = [req EXCEPT ![r] = AfterFlush(req[r], Tail(pendingMessages))]
    /\ UNCHANGED <<transports, lastActiveSessionId, heartbeats, timers, stream, nextId, response,
                   serverStatus>>

\* the flush loop resumed after await transport.handleMessage(msg)
FlushResume(r) ==
    /\ req[r].pc = "flushing"
    /\ \E ok \in BOOLEAN : HandleMessage(req[r].session, Head(req[r].toFlush), ok)
    /\ req' = [req EXCEPT ![r] = AfterFlush(req[r], Tail(req[r].toFlush))]
    /\ UNCHANGED <<transports, lastActiveSessionId, heartbeats, timers, pendingMessages, stream,
                   nextId, response, serverStatus>>

\* a promotion that ends the response once the body has been handled
PostConnected_EndsResponse(r) ==
    /\ req[r].pc = "connecting" /\ req[r].method = "POST"
    /\ IF req[r].body = NoBody
       THEN UNCHANGED handled
       ELSE \E ok \in BOOLEAN : HandleMessage(req[r].session, req[r].body, ok)
    /\ stream' = EndStream(stream, req[r].session)
    /\ req' = [req EXCEPT ![r] = Done]
    /\ UNCHANGED <<transports, lastActiveSessionId, heartbeats, timers, pendingMessages,
                   nextId, response, serverStatus>>

\* promoted POST /sse after mcpServer.connect resolved: the POST body, when it is an
\* object, is handled as the first message; the queue is not touched; nothing
\* follows the await of handleMessage
PostConnected(r) ==
    /\ req[r].pc = "connecting" /\ req[r].method = "POST"
    /\ IF req[r].body = NoBody
       THEN UNCHANGED handled
       ELSE \E ok \in BOOLEAN : HandleMessage(req[r].session, req[r].body, ok)
    /\ req' = [req EXCEPT ![r] = Done]
    /\ UNCHANGED <<transports, lastActiveSessionId, heartbeats, timers, pendingMessages, stream,
                   nextId, response, serverStatus>>

\* mcpServer.connect rejected: res.end(); delete this.transports[id]
ConnectFailed(r) ==
    /\ req[r].pc = "connecting"
    /\ stream' = EndStream(stream, req[r].session)
    /\ transports' = Remove(transports, req[r].session)
    /\ req' = [req EXCEPT ![r] = Done]
    /\ UNCHANGED <<lastActiveSessionId, heartbeats, timers, pendingMessages, handled, nextId, response,
                   serverStatus>>

\* a selection that looks up the explicit session only
SelectTransport_NoFallback(sid) ==
    IF sid # NoSession /\ Registered(sid) THEN sid
    ELSE IF sid = NoSession /\ lastActiveSessionId # NoSession
            /\ Registered(lastActiveSessionId)
         THEN lastActiveSessionId
         ELSE NoSession

\* transport selection of the POST handler: the explicit session if it is
\* registered, else the last active one if it is registered, else none
SelectTransport(sid) ==
    IF sid # NoSession /\ Registered(sid) THEN sid
    ELSE IF lastActiveSessionId # NoSession /\ Registered(lastActiveSessionId)
         THEN lastActiveSessionId
         ELSE NoSession

\* the session ids a client can name: none, one this server issued, a stale one
KnownIds == (0..(nextId - 1)) \cup {StaleId}

\* a handler that queues and redirects every POST it cannot route
PostAs_QueuesWithoutSession(r, path, sid, body) ==
    LET t == SelectTransport(sid)
        me == [IdleReq EXCEPT !.method = "POST", !.sid = sid, !.body = body]
    IN
    /\ CanArrive(r)
    /\ IF t = NoSession /\ path = "/sse" /\ sid = NoSession
       THEN /\ BeginClose(r, me)
            /\ UNCHANGED <<pendingMessages, response>>
       ELSE IF t = NoSession
       THEN /\ pendingMessages' = IF body # NoBody
                                  THEN Append(pendingMessages, body)
                                  ELSE pendingMessages
            /\ response' = [req |-> r, status |-> 303]
            /\ req' = [req EXCEPT ![r] = Done]
            /\ UNCHANGED <<lastActiveSessionId, stream>>
       ELSE /\ req' = [req EXCEPT ![r] = [me EXCEPT !.pc = "posting", !.target = t]]
            /\ UNCHANGED <<pendingMessages, lastActiveSessionId, stream, response>>
    /\ UNCHANGED <<transports, heartbeats, timers, handled, nextId, serverStatus>>

\* POST /messages | /sse | / : the body is read (await this.readJsonBody(req),
\* before which the handler touches no state), then: selection, promotion,
\* 303 + queue, 400, or up to await transport.handlePostMessage
PostAs(r, path, sid, body) ==
    LET t == SelectTransport(sid)
        me == [IdleReq EXCEPT !.method = "POST", !.sid = sid, !.body = body]
    IN
    /\ CanArrive(r)
    /\ IF t = NoSession /\ path = "/sse" /\ sid = NoSession
       THEN /\ BeginClose(r, me)
            /\ UNCHANGED <<pendingMessages, response>>
       ELSE IF t = NoSession
       THEN /\ IF sid # NoSession
               THEN /\ pendingMessages' = IF body # NoBody
                                          THEN Append(pendingMessages, body)
                                          ELSE pendingMessages
                    /\ response' = [req |-> r, status |-> 303]
               ELSE /\ pendingMessages' = pendingMessages
                    /\ response' = [req |-> r, status |-> 400]
            /\ req' = [req EXCEPT ![r] = Done]
            /\ UNCHANGED <<lastActiveSessionId, stream>>
       ELSE /\ req' = [req EXCEPT ![r] = [me EXCEPT !.pc = "posting", !.target = t]]
            /\ UNCHANGED <<pendingMessages, lastActiveSessionId, stream, response>>
    /\ UNCHANGED <<transports, heartbeats, timers, handled, nextId, serverStatus>>

Post(r) ==
    \E path \in PostPaths, sid \in KnownIds, body \in {NoBody, r} : PostAs(r, path, sid, body)

\* POST handler resumed after await transport.handlePostMessage: the SDK answered
\* 202 and handled the message, or it threw and the handler answers 500
PostResume(r) ==
    /\ req[r].pc = "posting"
    /\ \/ /\ req[r].body # NoBody
          /\ handled' = [handled EXCEPT ![req[r].target] = Append(@, req[r].body)]
          /\ response' = [req |-> r, status |-> 202]
          /\ \E toolsList \in BOOLEAN :
                serverStatus' = IF toolsList /\ serverStatus # "running"
                                THEN "running" ELSE serverStatus
       \/ /\ handled' = handled
          /\ response' = [req |-> r, status |-> 500]
          /\ serverStatus' = serverStatus
    /\ req' = [req EXCEPT ![r] = Done]
    /\ UNCHANGED <<transports, lastActiveSessionId, heartbeats, timers, pendingMessages,
                   stream, nextId>>

\* a close handler that leaves the heartbeat alone
StreamClose_KeepsHeartbeat(s) ==
    /\ stream[s] \in {"open", "ended"}
    /\ stream' = [stream EXCEPT ![s] = "closed"]
    /\ transports' = Remove(transports, s)
    /\ UNCHANGED <<heartbeats, timers>>
    /\ UNCHANGED <<lastActiveSessionId, pendingMessages, handled, nextId, req, response,
                   serverStatus>>

\* res.on('close'): the client went away, or an ended response finished closing
StreamClose(s) ==
    /\ stream[s] \in {"open", "ended"}
    /\ stream' = [stream EXCEPT ![s] = "closed"]
    /\ transports' = Remove(transports, s)
    /\ heartbeats' = heartbeats \ {s}
    /\ timers' = timers \ {s}
    /\ UNCHANGED <<lastActiveSessionId, pendingMessages, handled, nextId, req, response,
                   serverStatus>>

\* res.on('error'): only the heartbeat is cleared
StreamError(s) ==
    /\ stream[s] \in {"open", "ended"}
    /\ s \in heartbeats
    /\ heartbeats' = heartbeats \ {s}
    /\ timers' = timers \ {s}
    /\ UNCHANGED <<transports, lastActiveSessionId, pendingMessages, stream, handled,
                   nextId, req, response, serverStatus>>

\* the 25 s interval fires and res.write throws: clearInterval(timer); the entry
\* of this.heartbeats stays (a write that succeeds changes nothing)
HeartbeatFails(s) ==
    /\ s \in timers
    /\ timers' = timers \ {s}
    /\ UNCHANGED <<transports, lastActiveSessionId, heartbeats, pendingMessages, stream,
                   handled, nextId, req, response, serverStatus>>

RegInit ==
    /\ transports = <<>>
    /\ lastActiveSessionId = NoSession
    /\ heartbeats = {}
    /\ timers = {}
    /\ pendingMessages = <<>>
    /\ stream = [s \in SessionIds |-> "none"]
    /\ handled = [s \in SessionIds |-> <<>>]
    /\ nextId = 1
    /\ req = [r \in Requests |-> IdleReq]
    /\ response = NoResponse
    /\ mcpServer = "open"
    /\ httpServer = "listening"
    /\ serverStatus = "running"

\* the other components do not move while the registry serves requests
restOfReg == <<srvVars, storeVars, fnVars, discVars, bridgeVars, proxyVars, lifeVars, toolVars>>

RegNext ==
    \/ \E r \in Requests : GetSse(r) /\ UNCHANGED restOfReg
    \/ \E r \in Requests : Post(r) /\ UNCHANGED restOfReg
    \/ \E r \in Requests : CloseResume(r) /\ UNCHANGED restOfReg
    \/ \E r \in Requests : Register(r) /\ UNCHANGED restOfReg
    \/ \E r \in Requests : GetConnected(r) /\ UNCHANGED restOfReg
    \/ \E r \in Requests : FlushResume(r) /\ UNCHANGED restOfReg
    \/ \E r \in Requests : PostConnected(r) /\ UNCHANGED restOfReg
    \/ \E r \in Requests : ConnectFailed(r) /\ UNCHANGED restOfReg
    \/ \E r \in Requests : PostResume(r) /\ UNCHANGED restOfReg
    \/ \E s \in SessionIds : StreamClose(s) /\ UNCHANGED restOfReg
    \/ \E s \in SessionIds : StreamError(s) /\ UNCHANGED restOfReg
    \/ \E s \in SessionIds : HeartbeatFails(s) /\ UNCHANGED restOfReg

(***************************************************************************)
(* Session registry: close(), POST /request-handover and start()           *)
(***************************************************************************)
\* close(), up to the first await inside closeCurrentConnection (the status,
\* the registration timer and the additional listeners are not modelled)
Close(r) ==
    /\ FreeSlot(r)
    /\ serverStatus' = "stopped"
    /\ BeginClose(r, [IdleReq EXCEPT !.method = "close"])
    /\ UNCHANGED <<transports, heartbeats, timers, pendingMessages, handled, nextId, response,
                   mcpServer, httpServer>>

\* close() after closeCurrentConnection: this.httpServer.close() and
\* await this.mcpServer.close(), after which nothing follows
CloseFinish(r) ==
    /\ req[r].pc = "register" /\ req[r].method = "close"
    /\ httpServer' = "closed"
    /\ mcpServer' = "closed"
    /\ req' = [req EXCEPT ![r] = Done]
    /\ UNCHANGED <<transports, lastActiveSessionId, heartbeats, timers, pendingMessages,
                   stream, handled, nextId, response, serverStatus>>

\* POST /request-handover: 200 {success: true} is written, then
\* void this.shutdownServer() runs up to the first await inside
\* closeCurrentConnection
RequestHandover(r) ==
    /\ CanArrive(r)
    /\ response' = [req |-> r, status |-> 200]
    /\ BeginClose(r, [IdleReq EXCEPT !.method = "handover"])
    /\ serverStatus' = "stopped"
    /\ UNCHANGED <<transports, heartbeats, timers, pendingMessages, handled, nextId,
                   mcpServer, httpServer>>

\* a shutdown that also closes the protocol server
ShutdownFinish_ClosesMcpServer(r) ==
    /\ req[r].pc = "register" /\ req[r].method = "handover"
    /\ httpServer' = "closed"
    /\ mcpServer' = "closed"
    /\ req' = [req EXCEPT ![r] = Done]
    /\ UNCHANGED <<transports, lastActiveSessionId, heartbeats, timers, pendingMessages,
                   stream, handled, nextId, response, serverStatus>>

\* shutdownServer after closeCurrentConnection: srv.close() and the wait for the
\* listener's close event, which sets this.httpServer = undefined
ShutdownFinish(r) ==
    /\ req[r].pc = "register" /\ req[r].method = "handover"
    /\ httpServer' = "closed"
    /\ req' = [req EXCEPT ![r] = Done]
    /\ UNCHANGED <<transports, lastActiveSessionId, heartbeats, timers, pendingMessages,
                   stream, handled, nextId, response, mcpServer, serverStatus>>

\* start() once the previous listener has closed: a new listener on the same
\* McpServer
Start ==
    /\ httpServer = "closed"
    /\ httpServer' = "listening"
    /\ serverStatus' = "running"
    /\ UNCHANGED <<transports, lastActiveSessionId, heartbeats, timers, pendingMessages,
                   stream, handled, nextId, req, response, mcpServer>>

restOfSrv == <<storeVars, fnVars, discVars, bridgeVars, proxyVars, lifeVars, toolVars>>

SrvNext ==
    \/ RegNext
    \/ \E r \in Requests : Close(r) /\ UNCHANGED restOfSrv
    \/ \E r \in Requests : CloseFinish(r) /\ UNCHANGED restOfSrv
    \/ \E r \in Requests : RequestHandover(r) /\ UNCHANGED restOfSrv
    \/ \E r \in Requests : ShutdownFinish(r) /\ UNCHANGED restOfSrv
    \/ Start /\ UNCHANGED restOfSrv

(***************************************************************************)
(* Discovery store: POST /register, GET /discovery, sweep, doRegister      *)
(***************************************************************************)
DISCOVERY_TTL_MS == 120000
DISCOVERY_SWEEP_INTERVAL_MS == 60000

\* the clock moves in steps of one sweep interval
Times == {k * DISCOVERY_SWEEP_INTERVAL_MS : k \in 0..MaxTicks}

\* ports instances listen on; the first is this instance's listenPort
StorePorts == {"60100", "60101"}
listenPort == "60100"

\* workspace folders as clients write them
Paths == {"/ws/a", "/ws/a/", "/ws/b"}
registrationWorkspaceFolder == "/ws/a"

\* the path-equality predicate: paths are equal up to a trailing separator
Canonical(path) == IF path = "/ws/a/" THEN "/ws/a" ELSE path
arePathsEqual(a, b) == Canonical(a) = Canonical(b)

DiscoveryRecord(p, wf, t) == [port |-> p, workspaceFolder |-> wf, lastSeen |-> t]

\* JSON bodies a POST /register can carry: the port missing ("undefined"), zero
\* or a port number; the workspaceFolder empty or a path
RegisterBodies ==
    [port : StorePorts, workspaceFolder : {"/ws/a", "/ws/b"}]
        \cup {[port |-> "undefined", workspaceFolder |-> "/ws/a"],
              [port |-> "0", workspaceFolder |-> "/ws/b"],
              [port |-> "60101", workspaceFolder |-> ""]}

\* typeof port === 'number' && Number.isFinite(port) && port > 0
\*   && typeof wf === 'string' && wf.length > 0
isRegisterBody(v) == v.port \in StorePorts /\ v.workspaceFolder # ""

\* a purge that spares the records of twice the TTL
discoveryRemoveExpired_TwiceTtl(store, t) ==
    SelectSeq(store, LAMBDA r : ~(t - r.lastSeen > 2 * DISCOVERY_TTL_MS))

\* for (i = length - 1 .. 0) if (now - r.lastSeen > DISCOVERY_TTL_MS) splice(i, 1)
discoveryRemoveExpired(store, t) ==
    SelectSeq(store, LAMBDA r : ~(t - r.lastSeen > DISCOVERY_TTL_MS))

\* findIndex((r) => r.port === port)
FindIndex(store, p) ==
    IF \E i \in 1..Len(store) : store[i].port = p
    THEN CHOOSE i \in 1..Len(store) :
             /\ store[i].port = p
             /\ \A j \in 1..(i - 1) : store[j].port # p
    ELSE 0

\* an upsert that always appends
discoveryUpsert_AlwaysPushes(store, p, wf, t) ==
    Append(store, DiscoveryRecord(p, wf, t))

\* an upsert that refreshes lastSeen only
discoveryUpsert_KeepsFolder(store, p, wf, t) ==
    LET idx == FindIndex(store, p) IN
    IF idx > 0
    THEN [store EXCEPT ![idx] = DiscoveryRecord(p, @.workspaceFolder, t)]
    ELSE Append(store, DiscoveryRecord(p, wf, t))

discoveryUpsert(store, p, wf, t) ==
    LET idx == FindIndex(store, p) IN
    IF idx > 0
    THEN [store EXCEPT ![idx] = DiscoveryRecord(p, wf, t)]
    ELSE Append(store, DiscoveryRecord(p, wf, t))

\* a lookup by raw string equality
discoveryFindFirstByWorkspace_RawEquality(store, wf) ==
    LET hits == SelectSeq(store, LAMBDA r : r.workspaceFolder = wf)
    IN IF hits = <<>> THEN <<>> ELSE <<Head(hits)>>

\* the first record whose workspaceFolder is path-equal, as a sequence of at
\* most one record (empty: undefined)
discoveryFindFirstByWorkspace(store, wf) ==
    LET hits == SelectSeq(store, LAMBDA r : arePathsEqual(r.workspaceFolder, wf))
    IN IF hits = <<>> THEN <<>> ELSE <<Head(hits)>>

\* discoveryStore.map((r) => ({ ...r }))
discoveryGetCopy(store) == [i \in 1..Len(store) |-> store[i]]

\* length = 0; push every record of the copy; drop the expired ones
discoveryReplaceAll(copy, t) ==
    discoveryRemoveExpired(
        [i \in 1..Len(copy) |->
            DiscoveryRecord(copy[i].port, copy[i].workspaceFolder, copy[i].lastSeen)],
        t)

\* the snapshots another instance's store can answer a registration with: at
\* most one record per port, none seen in the future
RemoteCopies ==
    {<<>>}
    \cup {<<DiscoveryRecord(p, wf, t)>> :
              p \in StorePorts, wf \in {"/ws/a", "/ws/b"}, t \in {u \in Times : u <= now}}
    \cup {<<DiscoveryRecord(listenPort, registrationWorkspaceFolder, now),
            DiscoveryRecord("60101", wf, t)>> :
              wf \in {"/ws/a", "/ws/b"}, t \in {u \in Times : u <= now}}

Handlers == 1..MaxHandlers
IdleHandler == [pc |-> "idle", body |-> [port |-> "undefined", workspaceFolder |-> ""],
                self |-> FALSE]
IdleDoRegister == [pc |-> "idle", copy |-> <<>>]
NoStoreResponse == [path |-> "none", status |-> "none", port |-> "none", discovery |-> <<>>]

\* the body doRegister sends
makeBody == [port |-> listenPort, workspaceFolder |-> registrationWorkspaceFolder]

\* time passes
Tick ==
    /\ now + DISCOVERY_SWEEP_INTERVAL_MS \in Times
    /\ now' = now + DISCOVERY_SWEEP_INTERVAL_MS
    /\ storeResponse' = NoStoreResponse
    /\ UNCHANGED <<discoveryStore, reg, doReg>>

\* the sweep timer fired
Sweep ==
    /\ discoveryStore' = discoveryRemoveExpired(discoveryStore, now)
    /\ storeResponse' = NoStoreResponse
    /\ UNCHANGED <<now, reg, doReg>>

\* POST /register, up to await this.readJsonBody(req): the lazy cleanup. A
\* request of this instance's own doRegister arrives when the base port is
\* this instance's
RegisterArrives(h, body, self) ==
    /\ reg[h].pc = "idle"
    /\ self => /\ doReg.pc = "fetching"
               /\ body = makeBody
               /\ \A g \in Handlers : ~reg[g].self
    /\ discoveryStore' = discoveryRemoveExpired(discoveryStore, now)
    /\ reg' = [reg EXCEPT ![h] = [pc |-> "reading", body |-> body, self |-> self]]
    /\ storeResponse' = NoStoreResponse
    /\ UNCHANGED <<now, doReg>>

\* POST /register after the body was read: 400, or upsert and 200 with the copy
RegisterBody(h) ==
    /\ reg[h].pc = "reading"
    /\ IF ~isRegisterBody(reg[h].body)
       THEN /\ storeResponse' = [path |-> "/register", status |-> "400",
                                 port |-> "none", discovery |-> <<>>]
            /\ UNCHANGED <<discoveryStore, doReg>>
       ELSE LET after == discoveryUpsert(discoveryStore, reg[h].body.port,
                                         reg[h].body.workspaceFolder, now)
            IN /\ discoveryStore' = after
               /\ storeResponse' = [path |-> "/register", status |-> "200",
                                    port |-> "none", discovery |-> discoveryGetCopy(after)]
               /\ doReg' = IF reg[h].self
                           THEN [pc |-> "responded", copy |-> discoveryGetCopy(after)]
                           ELSE doReg
    /\ reg' = [reg EXCEPT ![h] = IdleHandler]
    /\ UNCHANGED now

\* GET /discovery?workspaceFolder=wf ("" when the parameter is missing or empty)
Discovery(wf) ==
    LET live == discoveryRemoveExpired(discoveryStore, now)
        found == discoveryFindFirstByWorkspace(live, wf)
    IN /\ discoveryStore' = live
       /\ storeResponse' =
              IF wf = ""
              THEN [path |-> "/discovery", status |-> "400", port |-> "none",
                    discovery |-> <<>>]
              ELSE IF found # <<>>
              THEN [path |-> "/discovery", status |-> "200", port |-> found[1].port,
                    discovery |-> <<>>]
              ELSE [path |-> "/discovery", status |-> "404", port |-> "none",
                    discovery |-> discoveryGetCopy(live)]
       /\ UNCHANGED <<now, reg, doReg>>

\* doRegister, up to await fetch(.../register): the lazy cleanup
DoRegister ==
    /\ doReg.pc = "idle"
    /\ discoveryStore' = discoveryRemoveExpired(discoveryStore, now)
    /\ doReg' = [doReg EXCEPT !.pc = "fetching"]
    /\ storeResponse' = NoStoreResponse
    /\ UNCHANGED <<now, reg>>

\* doRegister: another instance owns the base port and answered 200 with its
\* snapshot; discoveryReplaceAll(copy)
RemoteRegistered(copy) ==
    /\ doReg.pc = "fetching"
    /\ \A g \in Handlers : ~reg[g].self
    /\ discoveryStore' = discoveryReplaceAll(copy, now)
    /\ doReg' = IdleDoRegister
    /\ storeResponse' = NoStoreResponse
    /\ UNCHANGED <<now, reg>>

\* doRegister: the fetch rejected, the status was not 2xx or the body held no
\* discovery array; silent
RegistrationFailed ==
    /\ doReg.pc = "fetching"
    /\ \A g \in Handlers : ~reg[g].self
    /\ doReg' = IdleDoRegister
    /\ storeResponse' = NoStoreResponse
    /\ UNCHANGED <<discoveryStore, now, reg>>

\* doRegister resumed with the response of this instance's own handler:
\* discoveryReplaceAll(copy)
DoRegisterResume ==
    /\ doReg.pc = "responded"
    /\ discoveryStore' = discoveryReplaceAll(doReg.copy, now)
    /\ doReg' = IdleDoRegister
    /\ storeResponse' = NoStoreResponse
    /\ UNCHANGED <<now, reg>>

StInit ==
    /\ discoveryStore = <<>>
    /\ now = 0
    /\ reg = [h \in Handlers |-> IdleHandler]
    /\ doReg = IdleDoRegister
    /\ storeResponse = NoStoreResponse

restOfStore == <<fnVars, regVars, srvVars, discVars, bridgeVars, proxyVars, lifeVars, toolVars>>

StNext ==
    \/ Tick /\ UNCHANGED restOfStore
    \/ Sweep /\ UNCHANGED restOfStore
    \/ \E h \in Handlers, body \in RegisterBodies, self \in BOOLEAN :
           RegisterArrives(h, body, self) /\ UNCHANGED restOfStore
    \/ \E h \in Handlers : RegisterBody(h) /\ UNCHANGED restOfStore
    \/ \E wf \in Paths \cup {""} : Discovery(wf) /\ UNCHANGED restOfStore
    \/ DoRegister /\ UNCHANGED restOfStore
    \/ \E copy \in RemoteCopies : RemoteRegistered(copy) /\ UNCHANGED restOfStore
    \/ RegistrationFailed /\ UNCHANGED restOfStore
    \/ DoRegisterResume /\ UNCHANGED restOfStore

(***************************************************************************)
(* Reconnect engine: discovery.ts and connectWithReconnects                *)
(***************************************************************************)
\* SSE_PORT === undefined
NoPort == "undefined"
\* env.DISCOVERY_PORT
DISCOVERY_PORT == "env.DISCOVERY_PORT"
\* valid ports a discovery response can carry
DiscoveredPorts == {"60300", "60301"}

NoError == "none"
ConnectionFailed == "SSE connection failed"

\* while (attempt <= maxAttempts)
LoopCond_Strict(a, max) == a < max

LoopCond(a, max) == a <= max

\* the head of the attempt loop with the given locals: either the next
\* client.connect is started or the loop is left and the function throws
LoopHead(a) ==
    IF LoopCond(a, maxAttempts)
    THEN /\ bridgePc' = "connecting"
         /\ connectCalls' = connectCalls + 1
         /\ thrown' = thrown
         /\ UNCHANGED <<backoffMs, handle, closeCalls>>
    ELSE /\ bridgePc' = "failed"
         /\ connectCalls' = connectCalls
         /\ thrown' = ConnectionFailed
         /\ UNCHANGED <<backoffMs, handle, closeCalls>>

\* an entry that runs discovery whenever the cache is empty
Enter_AlwaysDiscovers ==
    /\ bridgePc = "entry"
    /\ IF SSE_PORT # NoPort
       THEN /\ port' = SSE_PORT
            /\ LoopHead(attempt)
            /\ UNCHANGED fetches
       ELSE /\ bridgePc' = "discovering"
            /\ fetches' = 1
            /\ UNCHANGED <<port, connectCalls, thrown, backoffMs, handle, closeCalls>>
    /\ UNCHANGED <<SSE_PORT, workspaceFolder, maxAttempts, attempt, connectFails,
                   resets, rediscoveries>>

\* connectWithReconnects from its entry to its first await: the initial port
Enter ==
    /\ bridgePc = "entry"
    /\ IF SSE_PORT # NoPort
       THEN /\ port' = SSE_PORT
            /\ LoopHead(attempt)
            /\ UNCHANGED fetches
       ELSE IF workspaceFolder
       THEN /\ bridgePc' = "discovering"
            /\ fetches' = 1
            /\ UNCHANGED <<port, connectCalls, thrown, backoffMs, handle, closeCalls>>
       ELSE /\ port' = DISCOVERY_PORT
            /\ LoopHead(attempt)
            /\ UNCHANGED fetches
    /\ UNCHANGED <<SSE_PORT, workspaceFolder, maxAttempts, attempt, connectFails,
                   resets, rediscoveries>>

\* resolveSsePortWithRetry: a 2xx response with a valid port; the port is cached
\* and returned, and the caller goes (back) to the head of the attempt loop
DiscoverOk(p) ==
    /\ bridgePc = "discovering"
    /\ SSE_PORT' = p
    /\ port' = p
    /\ LoopHead(attempt)
    /\ UNCHANGED <<workspaceFolder, maxAttempts, attempt, connectFails, resets,
                   rediscoveries, fetches>>

\* resolveSsePortWithRetry: 404, another status, a malformed body or a network
\* failure; the 5 s wait begins
DiscoverFail ==
    /\ bridgePc = "discovering"
    /\ bridgePc' = "discoveryWait"
    /\ UNCHANGED <<SSE_PORT, workspaceFolder, maxAttempts, attempt, port, connectCalls,
                   connectFails, resets, rediscoveries, fetches, thrown, backoffMs, handle, closeCalls>>

\* resolveSsePortWithRetry after the 5 s wait: SSE_PORT is still undefined, the
\* next request is sent
DiscoverAgain ==
    /\ bridgePc = "discoveryWait"
    /\ fetches < MaxFetches
    /\ bridgePc' = "discovering"
    /\ fetches' = fetches + 1
    /\ UNCHANGED <<SSE_PORT, workspaceFolder, maxAttempts, attempt, port, connectCalls,
                   connectFails, resets, rediscoveries, thrown, backoffMs, handle, closeCalls>>

\* no handle was returned
NoHandle == [returned |-> FALSE]

\* the handle { client, close } around the client created for the n-th connect
Handle(n) == [returned |-> TRUE, client |-> n]

\* how an awaited close call settles
CloseOutcomes == {"ok", "throw", "hang"}

\* await client.connect(transport) resolved: the handle around this client is
\* returned
ConnectOk ==
    /\ bridgePc = "connecting"
    /\ bridgePc' = "returned"
    /\ handle' = Handle(connectCalls)
    /\ UNCHANGED <<SSE_PORT, workspaceFolder, maxAttempts, attempt, port, connectCalls,
                   connectFails, resets, rediscoveries, fetches, thrown, backoffMs,
                   closeCalls>>

\* handle.close() is called: up to await client.close(), which will settle as o
HandleClose(o) ==
    /\ handle.returned
    /\ Len(closeCalls) < MaxCloses
    /\ closeCalls' = Append(closeCalls, [settles |-> o, result |-> "pending"])
    /\ UNCHANGED <<SSE_PORT, workspaceFolder, maxAttempts, attempt, port, bridgePc,
                   connectCalls, connectFails, resets, rediscoveries, fetches, thrown,
                   backoffMs, handle>>

\* a close() that lets the failure of client.close() escape
HandleCloseSettled_Rethrows(i) ==
    /\ closeCalls[i].result = "pending"
    /\ closeCalls[i].settles # "hang"
    /\ closeCalls' = [closeCalls EXCEPT ![i].result =
            IF closeCalls[i].settles = "throw" THEN "rejected" ELSE "resolved"]
    /\ UNCHANGED <<SSE_PORT, workspaceFolder, maxAttempts, attempt, port, bridgePc,
                   connectCalls, connectFails, resets, rediscoveries, fetches, thrown,
                   backoffMs, handle>>

\* await client.close() settled inside close(): a failure is swallowed by the
\* catch, the line "Disconnected from SSE" is logged and the promise resolves
HandleCloseSettled(i) ==
    /\ closeCalls[i].result = "pending"
    /\ closeCalls[i].settles # "hang"
    /\ closeCalls' = [closeCalls EXCEPT ![i].result = "resolved"]
    /\ UNCHANGED <<SSE_PORT, workspaceFolder, maxAttempts, attempt, port, bridgePc,
                   connectCalls, connectFails, resets, rediscoveries, fetches, thrown,
                   backoffMs, handle>>

Min(a, b) == IF a <= b THEN a ELSE b

\* a delay that doubles without the 30 s cap
BackoffDelay_Uncapped(a) == 2 ^ a * 200

\* const backoffMs = Math.min(30_000, 2 ** attempt * 200)
BackoffDelay(a) == Min(30000, 2 ^ a * 200)

\* the end of the catch block: break on the last attempt, else the backoff delay
Backoff ==
    /\ IF attempt = maxAttempts
       THEN bridgePc' = "failed" /\ thrown' = ConnectionFailed /\ backoffMs' = backoffMs
       ELSE bridgePc' = "backoff" /\ thrown' = thrown /\ backoffMs' = BackoffDelay(attempt)
    /\ UNCHANGED <<handle, closeCalls>>

\* a catch block without the re-discovery path
ConnectFail_AlwaysBackoff(noServer) ==
    /\ bridgePc = "connecting"
    /\ connectFails' = connectFails + 1
    /\ IF noServer /\ SSE_PORT # NoPort
       THEN /\ SSE_PORT' = NoPort
            /\ resets' = resets + 1
            /\ port' = DISCOVERY_PORT
       ELSE UNCHANGED <<SSE_PORT, resets, port>>
    /\ Backoff
    /\ UNCHANGED <<workspaceFolder, maxAttempts, attempt, connectCalls, rediscoveries,
                   fetches>>

\* await client.connect(transport) rejected: the catch block, with
\* noServer = isNoServerError(_e)
ConnectFail(noServer) ==
    /\ bridgePc = "connecting"
    /\ connectFails' = connectFails + 1
    /\ IF noServer /\ SSE_PORT # NoPort
       THEN /\ SSE_PORT' = NoPort
            /\ resets' = resets + 1
            /\ IF workspaceFolder
               THEN /\ rediscoveries < MaxRediscoveries
                    /\ rediscoveries' = rediscoveries + 1
                    /\ bridgePc' = "discovering"
                    /\ fetches' = 1
                    /\ UNCHANGED <<port, thrown, backoffMs, handle, closeCalls>>
               ELSE /\ port' = DISCOVERY_PORT
                    /\ Backoff
                    /\ UNCHANGED <<rediscoveries, fetches>>
       ELSE /\ Backoff
            /\ UNCHANGED <<SSE_PORT, resets, port, rediscoveries, fetches>>
    /\ UNCHANGED <<workspaceFolder, maxAttempts, attempt, connectCalls>>

\* await delay(backoffMs) done: attempt += 1, back to the head of the loop
BackoffDone ==
    /\ bridgePc = "backoff"
    /\ attempt' = attempt + 1
    /\ LoopHead(attempt + 1)
    /\ UNCHANGED <<SSE_PORT, workspaceFolder, maxAttempts, port, connectFails, resets,
                   rediscoveries, fetches>>

\* the call's inputs: the retry limit, the workspaceFolder argument and the
\* port cache an earlier call may have filled
BrInit ==
    /\ SSE_PORT \in {NoPort} \cup DiscoveredPorts
    /\ workspaceFolder \in BOOLEAN
    /\ maxAttempts \in 0..MaxRetryLimit
    /\ attempt = 0
    /\ port = NoPort
    /\ bridgePc = "entry"
    /\ connectCalls = 0
    /\ connectFails = 0
    /\ resets = 0
    /\ rediscoveries = 0
    /\ fetches = 0
    /\ thrown = NoError
    /\ backoffMs = 0
    /\ handle = NoHandle
    /\ closeCalls = <<>>
    /\ resolvePc = "idle"
    /\ responses = <<>>
    /\ resolved = NoPort

\* the engine before any call
BrQuiet ==
    /\ SSE_PORT = NoPort
    /\ workspaceFolder = FALSE
    /\ maxAttempts = 0
    /\ attempt = 0
    /\ port = NoPort
    /\ bridgePc = "entry"
    /\ connectCalls = 0
    /\ connectFails = 0
    /\ resets = 0
    /\ rediscoveries = 0
    /\ fetches = 0
    /\ thrown = NoError
    /\ backoffMs = 0
    /\ handle = NoHandle
    /\ closeCalls = <<>>
    /\ resolvePc = "idle"
    /\ responses = <<>>
    /\ resolved = NoPort

\* the other components do not move during a call of connectWithReconnects
restOfBridge == <<regVars, srvVars, storeVars, fnVars, discVars, proxyVars, lifeVars, toolVars>>

BrNext ==
    \/ Enter /\ UNCHANGED restOfBridge
    \/ \E p \in DiscoveredPorts : DiscoverOk(p) /\ UNCHANGED restOfBridge
    \/ DiscoverFail /\ UNCHANGED restOfBridge
    \/ DiscoverAgain /\ UNCHANGED restOfBridge
    \/ ConnectOk /\ UNCHANGED restOfBridge
    \/ \E noServer \in BOOLEAN : ConnectFail(noServer) /\ UNCHANGED restOfBridge
    \/ BackoffDone /\ UNCHANGED restOfBridge
    \/ \E o \in CloseOutcomes : HandleClose(o) /\ UNCHANGED restOfBridge
    \/ \E i \in 1..Len(closeCalls) : HandleCloseSettled(i) /\ UNCHANGED restOfBridge

(***************************************************************************)
(* Discovery client: resolveSsePortWithRetry called on its own             *)
(***************************************************************************)
\* getSsePort()
getSsePort == SSE_PORT

\* data.port of a 2xx JSON body: its typeof and, for a number or a string, its
\* literal; "unparsable" stands for a body on which res.json() rejects
NumberLiterals == {"-1", "0", "0.5", "1", "60300", "65535", "65536"}

PortFields ==
    [type : {"number"}, lit : NumberLiterals]
        \cup {[type |-> "string", lit |-> "60300"],
              [type |-> "undefined", lit |-> ""],
              [type |-> "unparsable", lit |-> ""]}

\* twice the numeric value of a number literal (so that 0.5 is an integer)
TwiceValue(lit) ==
    CASE lit = "-1" -> -2
      [] lit = "0" -> 0
      [] lit = "0.5" -> 1
      [] lit = "1" -> 2
      [] lit = "60300" -> 120600
      [] lit = "60301" -> 120602
      [] lit = "65535" -> 131070
      [] lit = "65536" -> 131072

\* what a request can end in: a status with (for a 2xx) a body, or fetch rejects
NoData == [type |-> "none", lit |-> ""]

DiscoveryResponses ==
    {[status |-> st, data |-> NoData] : st \in {"404", "500", "network error"}}
        \cup {[status |-> "200", data |-> d] : d \in PortFields}

\* typeof data.port === "number" && data.port > 0 && data.port <= 65535
Accepts(data) ==
    /\ data.type = "number"
    /\ TwiceValue(data.lit) > 0
    /\ TwiceValue(data.lit) <= 2 * 65535

\* the call, up to its first await: while (SSE_PORT === undefined) fetch(url)
ResolveCall ==
    /\ resolvePc = "idle"
    /\ IF SSE_PORT = NoPort
       THEN /\ resolvePc' = "fetching"
            /\ fetches' = fetches + 1
            /\ resolved' = resolved
       ELSE /\ resolvePc' = "returned"
            /\ fetches' = fetches
            /\ resolved' = SSE_PORT
    /\ UNCHANGED <<SSE_PORT, responses>>

\* a loop that polls again at once after an unsuccessful response
FetchSettles_NoWait(res) ==
    /\ resolvePc = "fetching"
    /\ responses' = Append(responses, res)
    /\ IF res.status = "200" /\ res.data.type # "unparsable" /\ Accepts(res.data)
       THEN /\ SSE_PORT' = res.data.lit
            /\ resolved' = res.data.lit
            /\ resolvePc' = "returned"
            /\ fetches' = fetches
       ELSE /\ resolvePc' = IF fetches < MaxPolls THEN "fetching" ELSE "waiting"
            /\ fetches' = IF fetches < MaxPolls THEN fetches + 1 ELSE fetches
            /\ UNCHANGED <<SSE_PORT, resolved>>

\* await fetch(url) settled: 404 warns; a 2xx body is parsed and its port cached
\* and returned when accepted, else the handler throws; another status throws;
\* a rejected fetch or res.json() throws; every throw is caught and logged and
\* the 5 s wait begins
FetchSettles(res) ==
    /\ resolvePc = "fetching"
    /\ responses' = Append(responses, res)
    /\ IF res.status = "200" /\ res.data.type # "unparsable" /\ Accepts(res.data)
       THEN /\ SSE_PORT' = res.data.lit
            /\ resolved' = res.data.lit
            /\ resolvePc' = "returned"
       ELSE /\ resolvePc' = "waiting"
            /\ UNCHANGED <<SSE_PORT, resolved>>
    /\ fetches' = fetches

\* the 5 s timer fired: the loop condition is tested again, then the next
\* request is sent or the cached port returned
WaitDone ==
    /\ resolvePc = "waiting"
    /\ fetches < MaxPolls
    /\ IF SSE_PORT = NoPort
       THEN /\ resolvePc' = "fetching"
            /\ fetches' = fetches + 1
            /\ resolved' = resolved
       ELSE /\ resolvePc' = "returned"
            /\ fetches' = fetches
            /\ resolved' = SSE_PORT
    /\ UNCHANGED <<SSE_PORT, responses>>

\* the cache an earlier call may have filled; the engine itself is at rest
DcInit ==
    /\ SSE_PORT \in {NoPort} \cup DiscoveredPorts
    /\ workspaceFolder = TRUE
    /\ maxAttempts = 0
    /\ attempt = 0
    /\ port = NoPort
    /\ bridgePc = "entry"
    /\ connectCalls = 0
    /\ connectFails = 0
    /\ resets = 0
    /\ rediscoveries = 0
    /\ fetches = 0
    /\ thrown = NoError
    /\ backoffMs = 0
    /\ handle = NoHandle
    /\ closeCalls = <<>>
    /\ resolvePc = "idle"
    /\ responses = <<>>
    /\ resolved = NoPort

restOfDisc == <<regVars, srvVars, storeVars, fnVars, proxyVars, lifeVars, toolVars, workspaceFolder,
                maxAttempts, attempt, port, bridgePc, connectCalls, connectFails,
                resets, rediscoveries, thrown, backoffMs, handle, closeCalls>>

DcNext ==
    \/ ResolveCall /\ UNCHANGED restOfDisc
    \/ \E res \in DiscoveryResponses : FetchSettles(res) /\ UNCHANGED restOfDisc
    \/ WaitDone /\ UNCHANGED restOfDisc

(***************************************************************************)
(* Protocol proxy: createProxyServer, the request handlers                 *)
(***************************************************************************)
CallIds == 1..MaxCalls

\* the request methods a handler is registered for
Methods == {"prompts/list", "prompts/get", "resources/list",
            "resources/templates/list", "resources/read", "resources/subscribe",
            "resources/unsubscribe", "logging/setLevel", "tools/list", "tools/call",
            "completion/complete"}

\* req.params of a downstream request
Params == {"params1", "params2"}

\* req.params.level
Level(p) == IF p = "params1" THEN "debug" ELSE "error"

NoRequest == [method |-> "none", params |-> "none"]

\* the result {}
EmptyResult == [k \in {} |-> k]

\* the RemoteApi operation a handler calls and the arguments it passes
RemoteCall(method, p) ==
    CASE method = "prompts/list" -> [op |-> "listPrompts", args |-> <<>>]
      [] method = "prompts/get" -> [op |-> "getPrompt", args |-> <<p>>]
      [] method = "resources/list" -> [op |-> "listResources", args |-> <<p>>]
      [] method = "resources/templates/list" ->
             [op |-> "listResourceTemplates", args |-> <<p>>]
      [] method = "resources/read" -> [op |-> "readResource", args |-> <<p>>]
      [] method = "resources/subscribe" -> [op |-> "subscribeResource", args |-> <<p>>]
      [] method = "resources/unsubscribe" ->
             [op |-> "unsubscribeResource", args |-> <<p>>]
      [] method = "logging/setLevel" -> [op |-> "setLoggingLevel", args |-> <<Level(p)>>]
      [] method = "tools/list" -> [op |-> "listTools", args |-> <<p>>]
      [] method = "tools/call" ->
             [op |-> "callTool", args |-> <<p, "CompatibilityCallToolResultSchema">>]
      [] method = "completion/complete" -> [op |-> "complete", args |-> <<p>>]

\* the call as it is started for request id
Started(id, method, p) ==
    [id |-> id, op |-> RemoteCall(method, p).op, args |-> RemoteCall(method, p).args]

\* messages of the errors remote.callTool rejects with
Messages == {"boom", "Connection closed"}

TextContent(t) == <<[type |-> "text", text |-> t]>>

\* results remote.callTool resolves with
ToolResults == {[content |-> TextContent("ok"), isError |-> FALSE]}

\* results the other RemoteApi operations resolve with
ForwardResults == {[tools |-> <<[name |-> "t"]>>], EmptyResult}

\* how the promise of remote.callTool settles
Resolved(v) == [settled |-> "resolved", value |-> v]
Rejected(m) == [settled |-> "rejected", error |-> [message |-> m]]

NotCalled == [pc |-> "none", up |-> "none"]

\* a handler that lets the rejection through
CallToolHandler_Rethrows(up) ==
    IF up.settled = "resolved"
    THEN [kind |-> "return", result |-> up.value]
    ELSE [kind |-> "throw", error |-> up.error]

\* the CallToolRequestSchema handler after await remote.callTool: what it returns
\* or throws
CallToolHandler(up) ==
    IF up.settled = "resolved"
    THEN [kind |-> "return", result |-> up.value]
    ELSE [kind |-> "return",
          result |-> [content |-> TextContent(up.error.message), isError |-> TRUE]]

\* the SDK server answers a request once: with the handler's result, or with a
\* JSON-RPC error when the handler threw
Reply(id, completion) ==
    IF completion.kind = "return"
    THEN [id |-> id, result |-> completion.result]
    ELSE [id |-> id, error |-> [message |-> completion.error.message]]

\* the handlers of the other methods after the await of their RemoteApi
\* operation: subscribe, unsubscribe and setLevel return {}, the others the
\* upstream result; a rejection is not caught
ForwardHandler(method, up) ==
    IF up.settled = "resolved"
    THEN [kind |-> "return",
          result |-> IF method \in {"resources/subscribe", "resources/unsubscribe",
                                    "logging/setLevel"}
                     THEN EmptyResult
                     ELSE up.value]
    ELSE [kind |-> "throw", error |-> up.error]

\* request id is the next one the server receives
Arrives(id) ==
    /\ rpc[id].pc = "none"
    /\ IF id = 1 THEN TRUE ELSE rpc[id - 1].pc # "none"

\* a handler that puts its call in front of the calls already started
CallToolRequest_Reorders(id) ==
    /\ Arrives(id)
    /\ \E p \in Params :
          /\ request' = [request EXCEPT ![id] = [method |-> "tools/call", params |-> p]]
          /\ upstream' = <<Started(id, "tools/call", p)>> \o upstream
    /\ rpc' = [rpc EXCEPT ![id].pc = "forwarded"]
    /\ UNCHANGED sent

\* a tools/call request arrives: the handler runs up to await remote.callTool
CallToolRequest(id) ==
    /\ Arrives(id)
    /\ \E p \in Params :
          /\ request' = [request EXCEPT ![id] = [method |-> "tools/call", params |-> p]]
          /\ upstream' = Append(upstream, Started(id, "tools/call", p))
    /\ rpc' = [rpc EXCEPT ![id].pc = "forwarded"]
    /\ UNCHANGED sent

\* a request of another method arrives: its handler runs up to the await of the
\* RemoteApi operation
ForwardRequest(id) ==
    /\ Arrives(id)
    /\ id <= MaxForwards
    /\ \E method \in Methods \ {"tools/call"}, p \in Params :
          /\ request' = [request EXCEPT ![id] = [method |-> method, params |-> p]]
          /\ upstream' = Append(upstream, Started(id, method, p))
    /\ rpc' = [rpc EXCEPT ![id].pc = "forwarded"]
    /\ UNCHANGED sent

\* the handler resumed with how remote.callTool settled, and the response
Settle(id, up) ==
    /\ rpc[id].pc = "forwarded"
    /\ request[id].method = "tools/call"
    /\ rpc' = [rpc EXCEPT ![id] = [pc |-> "answered", up |-> up]]
    /\ sent' = Append(sent, Reply(id, CallToolHandler(up)))
    /\ UNCHANGED <<request, upstream>>

\* the handler of another method resumed with how its operation settled, and
\* the response
ForwardSettle(id, up) ==
    /\ rpc[id].pc = "forwarded"
    /\ request[id].method # "tools/call"
    /\ rpc' = [rpc EXCEPT ![id] = [pc |-> "answered", up |-> up]]
    /\ sent' = Append(sent, Reply(id, ForwardHandler(request[id].method, up)))
    /\ UNCHANGED <<request, upstream>>

\* the RemoteApi operation resolved
ForwardResolves(id) == \E v \in ForwardResults : ForwardSettle(id, Resolved(v))

\* the RemoteApi operation rejected
ForwardRejects(id) == \E m \in Messages : ForwardSettle(id, Rejected(m))

\* remote.callTool resolved
CallToolResolves(id) == \E v \in ToolResults : Settle(id, Resolved(v))

\* remote.callTool rejected
CallToolRejects(id) == \E m \in Messages : Settle(id, Rejected(m))

PxInit ==
    /\ request = [id \in CallIds |-> NoRequest]
    /\ rpc = [id \in CallIds |-> NotCalled]
    /\ upstream = <<>>
    /\ sent = <<>>

\* the other components do not move while the proxy serves requests
restOfProxy == <<regVars, srvVars, storeVars, fnVars, discVars, bridgeVars, lifeVars, toolVars>>

PxNext ==
    \/ \E id \in CallIds : CallToolRequest(id) /\ UNCHANGED restOfProxy
    \/ \E id \in CallIds : CallToolResolves(id) /\ UNCHANGED restOfProxy
    \/ \E id \in CallIds : CallToolRejects(id) /\ UNCHANGED restOfProxy

\* the proxy serving requests of every method
FwNext ==
    \/ \E id \in CallIds : CallToolRequest(id) /\ UNCHANGED restOfProxy
    \/ \E id \in CallIds : CallToolResolves(id) /\ UNCHANGED restOfProxy
    \/ \E id \in CallIds : CallToolRejects(id) /\ UNCHANGED restOfProxy
    \/ \E id \in CallIds : ForwardRequest(id) /\ UNCHANGED restOfProxy
    \/ \E id \in CallIds : ForwardResolves(id) /\ UNCHANGED restOfProxy
    \/ \E id \in CallIds : ForwardRejects(id) /\ UNCHANGED restOfProxy

(***************************************************************************)
(* Process lifecycle: stdioMain                                            *)
(***************************************************************************)
Signals == {"SIGINT", "SIGTERM", "SIGHUP", "SIGPIPE"}

\* process.stdin 'end' | 'close' | 'error', process.stdout 'error'
StdioEvents == {"stdin end", "stdin close", "stdin error", "stdout error"}

\* process.exit has not been called
NoCode == -1

\* logger.error(`startup failed: ${msg}`)
StartupFailedLine(msg) == [level |-> "error", prefix |-> "startup failed: ", msg |-> msg]

\* a createProxyServer that builds the server before it pings
ConnectResolved_CreatesFirst ==
    /\ ~exited /\ main = "connecting"
    /\ remoteClose' = TRUE
    /\ main' = "creating"
    /\ startupSteps' = <<"createServer", "registerHandlers", "ping">>
    /\ UNCHANGED <<server, shuttingDown, parentWatch, forceExit, graceful, awaiting,
                   bodyRuns, gracefulCalls, remoteCloseCalls, onceSignals, listeners,
                   errorLog, exited, exitCode, shutdownSteps>>

\* await connectWithReconnects(env, logger) resolved: remoteClose = close, then
\* createProxyServer(remoteApi) up to its await remote.ping()
ConnectResolved ==
    /\ ~exited /\ main = "connecting"
    /\ remoteClose' = TRUE
    /\ main' = "creating"
    /\ startupSteps' = <<"ping">>
    /\ UNCHANGED <<server, shuttingDown, parentWatch, forceExit, graceful, awaiting,
                   bodyRuns, gracefulCalls, remoteCloseCalls, onceSignals, listeners,
                   errorLog, exited, exitCode, shutdownSteps>>

\* remote.ping() resolved: createProxyServer creates the Server, registers the
\* request handlers and returns it; server is assigned, then up to
\* await server.connect(transport)
CreateResolved ==
    /\ ~exited /\ main = "creating"
    /\ server' = TRUE
    /\ main' = "attaching"
    /\ startupSteps' = startupSteps \o <<"createServer", "registerHandlers", "attachStdio">>
    /\ UNCHANGED <<remoteClose, shuttingDown, parentWatch, forceExit, graceful, awaiting,
                   bodyRuns, gracefulCalls, remoteCloseCalls, onceSignals, listeners,
                   errorLog, exited, exitCode, shutdownSteps>>

\* a startup that does not listen for SIGHUP
AttachResolved_NoHangup ==
    /\ ~exited /\ main = "attaching"
    /\ main' = "running"
    /\ onceSignals' = Signals \ {"SIGHUP"}
    /\ listeners' = TRUE
    /\ parentWatch' = TRUE
    /\ UNCHANGED <<remoteClose, server, shuttingDown, forceExit, graceful, awaiting,
                   bodyRuns, gracefulCalls, remoteCloseCalls, errorLog, exited, exitCode,
                   shutdownSteps, startupSteps>>

\* await server.connect(transport) resolved: the rest of stdioMain installs the
\* signal listeners, the stdio listeners, the parent poll and the error traps
AttachResolved ==
    /\ ~exited /\ main = "attaching"
    /\ main' = "running"
    /\ onceSignals' = Signals
    /\ listeners' = TRUE
    /\ parentWatch' = TRUE
    /\ UNCHANGED <<remoteClose, server, shuttingDown, forceExit, graceful, awaiting,
                   bodyRuns, gracefulCalls, remoteCloseCalls, errorLog, exited, exitCode,
                   shutdownSteps, startupSteps>>

\* a catch block that exits without closing the handle
StartupCatch_LeaksHandle(msg) ==
    /\ errorLog' = Append(errorLog, StartupFailedLine(msg))
    /\ awaiting' = "ok"
    /\ remoteCloseCalls' = remoteCloseCalls
    /\ main' = "failClosing"

\* the catch block of the startup: the log line, then up to await remoteClose?.()
StartupCatch(msg) ==
    /\ errorLog' = Append(errorLog, StartupFailedLine(msg))
    /\ IF remoteClose
       THEN /\ remoteCloseCalls' = remoteCloseCalls + 1
            /\ awaiting' \in CloseOutcomes
       ELSE /\ remoteCloseCalls' = remoteCloseCalls
            /\ awaiting' = "ok"
    /\ main' = "failClosing"

\* await connectWithReconnects rejected
ConnectRejected ==
    /\ ~exited /\ main = "connecting"
    /\ StartupCatch(ConnectionFailed)
    /\ UNCHANGED <<remoteClose, server, shuttingDown, parentWatch, forceExit, graceful,
                   bodyRuns, gracefulCalls, onceSignals, listeners, exited, exitCode,
                   shutdownSteps, startupSteps>>

\* await createProxyServer rejected (remote.ping failed)
CreateRejected ==
    /\ ~exited /\ main = "creating"
    /\ \E m \in Messages : StartupCatch(m)
    /\ UNCHANGED <<remoteClose, server, shuttingDown, parentWatch, forceExit, graceful,
                   bodyRuns, gracefulCalls, onceSignals, listeners, exited, exitCode,
                   shutdownSteps, startupSteps>>

\* await server.connect(transport) rejected
AttachRejected ==
    /\ ~exited /\ main = "attaching"
    /\ \E m \in Messages : StartupCatch(m)
    /\ UNCHANGED <<remoteClose, server, shuttingDown, parentWatch, forceExit, graceful,
                   bodyRuns, gracefulCalls, onceSignals, listeners, exited, exitCode,
                   shutdownSteps, startupSteps>>

\* the catch block after await remoteClose?.() settled: process.exit(1)
StartupExit ==
    /\ ~exited /\ main = "failClosing"
    /\ awaiting \in {"ok", "throw"}
    /\ exited' = TRUE
    /\ exitCode' = 1
    /\ awaiting' = "none"
    /\ UNCHANGED <<main, remoteClose, server, shuttingDown, parentWatch, forceExit,
                   graceful, bodyRuns, gracefulCalls, remoteCloseCalls, onceSignals,
                   listeners, errorLog, shutdownSteps, startupSteps>>

\* a graceful without the shuttingDown guard
Graceful_Unguarded ==
    /\ gracefulCalls < MaxTriggers
    /\ gracefulCalls' = gracefulCalls + 1
    /\ shuttingDown' = TRUE
    /\ parentWatch' = FALSE
    /\ forceExit' = TRUE
    /\ bodyRuns' = bodyRuns + 1
    /\ graceful' = "closingServer"
    /\ awaiting' \in CloseOutcomes
    /\ shutdownSteps' = <<"stopWatchers", "armForceExit", "closeServer">>

\* a graceful that does not arm the force-exit timer
Graceful_NoForceExit ==
    /\ gracefulCalls < MaxTriggers
    /\ gracefulCalls' = gracefulCalls + 1
    /\ IF shuttingDown
       THEN UNCHANGED <<shuttingDown, parentWatch, forceExit, graceful, awaiting, bodyRuns,
                        shutdownSteps>>
       ELSE /\ shuttingDown' = TRUE
            /\ parentWatch' = FALSE
            /\ forceExit' = forceExit
            /\ bodyRuns' = bodyRuns + 1
            /\ graceful' = "closingServer"
            /\ awaiting' \in CloseOutcomes
            /\ shutdownSteps' = <<"stopWatchers", "armForceExit", "closeServer">>

\* graceful(signal), from its entry to await server?.close(): the guard, then
\* stopWatchers, the force-exit timer and the call of server.close()
Graceful ==
    /\ gracefulCalls < MaxTriggers
    /\ gracefulCalls' = gracefulCalls + 1
    /\ IF shuttingDown
       THEN UNCHANGED <<shuttingDown, parentWatch, forceExit, graceful, awaiting, bodyRuns,
                        shutdownSteps>>
       ELSE /\ shuttingDown' = TRUE
            /\ parentWatch' = FALSE
            /\ forceExit' = TRUE
            /\ bodyRuns' = bodyRuns + 1
            /\ graceful' = "closingServer"
            /\ awaiting' \in CloseOutcomes
            /\ shutdownSteps' = <<"stopWatchers", "armForceExit", "closeServer">>

\* process.once(sig, () => void graceful(...)): the listener runs and is removed
Signal(sig) ==
    /\ ~exited /\ sig \in onceSignals
    /\ onceSignals' = onceSignals \ {sig}
    /\ Graceful
    /\ UNCHANGED <<main, remoteClose, server, remoteCloseCalls, listeners, errorLog,
                   exited, exitCode, startupSteps>>

\* process.stdin.on('end'|'close'|'error'), process.stdout.on('error')
StdioEvent(ev) ==
    /\ ~exited /\ listeners
    /\ Graceful
    /\ UNCHANGED <<main, remoteClose, server, remoteCloseCalls, onceSignals, listeners,
                   errorLog, exited, exitCode, startupSteps>>

\* process.on('unhandledRejection' | 'uncaughtException')
UnhandledError ==
    /\ ~exited /\ listeners
    /\ Graceful
    /\ UNCHANGED <<main, remoteClose, server, remoteCloseCalls, onceSignals, listeners,
                   errorLog, exited, exitCode, startupSteps>>

\* the 2 s poll finds the parent gone: process.kill(ppid, 0) throws or ppid is 1
ParentGone ==
    /\ ~exited /\ parentWatch
    /\ Graceful
    /\ UNCHANGED <<main, remoteClose, server, remoteCloseCalls, onceSignals, listeners,
                   errorLog, exited, exitCode, startupSteps>>

\* a graceful that gives up when server.close() throws
ServerCloseSettled_StopsOnThrow ==
    /\ ~exited /\ graceful = "closingServer"
    /\ awaiting \in {"ok", "throw"}
    /\ IF awaiting = "throw"
       THEN /\ remoteCloseCalls' = remoteCloseCalls
            /\ awaiting' = "none"
            /\ graceful' = "exitScheduled"
            /\ shutdownSteps' = shutdownSteps \o <<awaiting, "scheduleExit">>
       ELSE /\ remoteCloseCalls' = remoteCloseCalls + 1
            /\ awaiting' \in CloseOutcomes
            /\ graceful' = "closingRemote"
            /\ shutdownSteps' = shutdownSteps \o <<awaiting, "closeRemote">>
    /\ UNCHANGED <<main, remoteClose, server, shuttingDown, parentWatch, forceExit,
                   bodyRuns, gracefulCalls, onceSignals, listeners, errorLog, exited,
                   exitCode, startupSteps>>

\* graceful resumed after await server?.close() settled (a throw is caught): up
\* to await remoteClose?.()
ServerCloseSettled ==
    /\ ~exited /\ graceful = "closingServer"
    /\ awaiting \in {"ok", "throw"}
    /\ remoteCloseCalls' = remoteCloseCalls + 1
    /\ awaiting' \in CloseOutcomes
    /\ graceful' = "closingRemote"
    /\ shutdownSteps' = shutdownSteps \o <<awaiting, "closeRemote">>
    /\ UNCHANGED <<main, remoteClose, server, shuttingDown, parentWatch, forceExit,
                   bodyRuns, gracefulCalls, onceSignals, listeners, errorLog, exited,
                   exitCode, startupSteps>>

\* graceful resumed after await remoteClose?.() settled (a throw is caught):
\* setTimeout(() => process.exit(0), 0)
RemoteCloseSettled ==
    /\ ~exited /\ graceful = "closingRemote"
    /\ awaiting \in {"ok", "throw"}
    /\ awaiting' = "none"
    /\ graceful' = "exitScheduled"
    /\ shutdownSteps' = shutdownSteps \o <<awaiting, "scheduleExit">>
    /\ UNCHANGED <<main, remoteClose, server, shuttingDown, parentWatch, forceExit,
                   bodyRuns, gracefulCalls, remoteCloseCalls, onceSignals, listeners,
                   errorLog, exited, exitCode, startupSteps>>

\* the 0 ms timer: process.exit(0)
ExitTimer ==
    /\ ~exited /\ graceful = "exitScheduled"
    /\ exited' = TRUE
    /\ exitCode' = 0
    /\ UNCHANGED <<main, remoteClose, server, shuttingDown, parentWatch, forceExit,
                   graceful, awaiting, bodyRuns, gracefulCalls, remoteCloseCalls,
                   onceSignals, listeners, errorLog, shutdownSteps, startupSteps>>

\* the 1500 ms force-exit timer: process.exit(0)
ForceExit ==
    /\ ~exited /\ forceExit
    /\ exited' = TRUE
    /\ exitCode' = 0
    /\ UNCHANGED <<main, remoteClose, server, shuttingDown, parentWatch, forceExit,
                   graceful, awaiting, bodyRuns, gracefulCalls, remoteCloseCalls,
                   onceSignals, listeners, errorLog, shutdownSteps, startupSteps>>

LcInit ==
    /\ main = "connecting"
    /\ remoteClose = FALSE
    /\ server = FALSE
    /\ shuttingDown = FALSE
    /\ parentWatch = FALSE
    /\ forceExit = FALSE
    /\ graceful = "idle"
    /\ awaiting = "none"
    /\ bodyRuns = 0
    /\ gracefulCalls = 0
    /\ remoteCloseCalls = 0
    /\ onceSignals = {}
    /\ listeners = FALSE
    /\ errorLog = <<>>
    /\ exited = FALSE
    /\ exitCode = NoCode
    /\ shutdownSteps = <<>>
    /\ startupSteps = <<>>

\* the other components are not modelled while the process starts and stops
restOfLife == <<regVars, srvVars, storeVars, fnVars, discVars, bridgeVars, proxyVars, toolVars>>

LcNext ==
    \/ ConnectResolved /\ UNCHANGED restOfLife
    \/ CreateResolved /\ UNCHANGED restOfLife
    \/ AttachResolved /\ UNCHANGED restOfLife
    \/ ConnectRejected /\ UNCHANGED restOfLife
    \/ CreateRejected /\ UNCHANGED restOfLife
    \/ AttachRejected /\ UNCHANGED restOfLife
    \/ StartupExit /\ UNCHANGED restOfLife
    \/ \E sig \in Signals : Signal(sig) /\ UNCHANGED restOfLife
    \/ \E ev \in StdioEvents : StdioEvent(ev) /\ UNCHANGED restOfLife
    \/ UnhandledError /\ UNCHANGED restOfLife
    \/ ParentGone /\ UNCHANGED restOfLife
    \/ ServerCloseSettled /\ UNCHANGED restOfLife
    \/ RemoteCloseSettled /\ UNCHANGED restOfLife
    \/ ExitTimer /\ UNCHANGED restOfLife
    \/ ForceExit /\ UNCHANGED restOfLife

\* a timer that is armed fires while the process lives, and a close call that
\* settles resumes its caller
LcFairness ==
    /\ WF_vars(ForceExit /\ UNCHANGED restOfLife)
    /\ WF_vars(ExitTimer /\ UNCHANGED restOfLife)
    /\ WF_vars(ServerCloseSettled /\ UNCHANGED restOfLife)
    /\ WF_vars(RemoteCloseSettled /\ UNCHANGED restOfLife)

(***************************************************************************)
(* Tool bridge: createRemoteApi.callTool, workspace-scoped variant         *)
(***************************************************************************)
ToolCalls == 1..MaxToolCalls

\* arguments.workspaceFolder of a call: a non-empty string, or none
Workspaces == {"wsA", "wsB"}
NoWorkspace == "undefined"

\* the port GET /discovery?workspaceFolder=w answers with: the port of the host
\* window registered for w
PortOf(w) == IF w = "wsA" THEN "60300" ELSE "60301"

\* the client after client.close()
Closed == "closed"

\* err.code of the errors a client call rejects with
ErrorCodes == {"ECONNREFUSED", "undefined"}

\* a classification that also counts a timeout
isNoServerError_AlsoTimedOut(code) ==
    code \in {"ENOTFOUND", "ECONNREFUSED", "ECONNRESET", "ETIMEDOUT"}

isNoServerError(code) == code \in {"ENOTFOUND", "ECONNREFUSED", "ECONNRESET"}

IdleTool == [pc |-> "idle", wf |-> NoWorkspace, found |-> NoPort, sends |-> 0,
             retry |-> FALSE, code |-> "none"]

\* client.callTool(params, undefined, NO_TIMEOUT_OPTIONS) is invoked for call t
Send(t, me) ==
    tool' = [tool EXCEPT ![t] = [me EXCEPT !.pc = "sent", !.sends = @ + 1]]

\* ensureConnectedForWorkspaceFolder after resolveSsePortWithRetry returned p:
\* client.close() is called when the port differs from currentPort, else the
\* function returns and callTool goes on to client.callTool
Ensure(t, me, p) ==
    IF currentPort # p
    THEN /\ tool' = [tool EXCEPT ![t] = [me EXCEPT !.pc = "closing", !.found = p]]
         /\ clientPort' = Closed
         /\ UNCHANGED currentPort
    ELSE /\ Send(t, [me EXCEPT !.found = p])
         /\ UNCHANGED <<currentPort, clientPort>>

\* callTool(params) from its entry: ensureConnectedForWorkspaceFolder(wf) starts
\* discovery when wf is given and the port cache is empty, else it does nothing
\* and the call is forwarded
ToolCall(t, wf) ==
    /\ tool[t].pc = "idle"
    /\ IF t = 1 THEN TRUE ELSE tool[t - 1].pc # "idle"
    /\ LET me == [IdleTool EXCEPT !.wf = wf] IN
       IF wf # NoWorkspace /\ SSE_PORT = NoPort
       THEN tool' = [tool EXCEPT ![t] = [me EXCEPT !.pc = "discovering"]]
       ELSE Send(t, me)
    /\ UNCHANGED <<SSE_PORT, currentPort, clientPort>>

\* resolveSsePortWithRetry of call t: a valid response; the port is cached
ToolDiscoverOk(t) ==
    /\ tool[t].pc = "discovering"
    /\ SSE_PORT' = PortOf(tool[t].wf)
    /\ Ensure(t, tool[t], PortOf(tool[t].wf))

\* resolveSsePortWithRetry of call t: an unsuccessful response; the 5 s wait begins
ToolDiscoverFail(t) ==
    /\ tool[t].pc = "discovering"
    /\ tool' = [tool EXCEPT ![t].pc = "discoveryWait"]
    /\ UNCHANGED <<SSE_PORT, currentPort, clientPort>>

\* resolveSsePortWithRetry of call t after the 5 s wait: the loop condition; a
\* port cached meanwhile is returned, else the next request is sent
ToolDiscoverAgain(t) ==
    /\ tool[t].pc = "discoveryWait"
    /\ IF SSE_PORT # NoPort
       THEN Ensure(t, tool[t], SSE_PORT)
       ELSE /\ tool' = [tool EXCEPT ![t].pc = "discovering"]
            /\ UNCHANGED <<currentPort, clientPort>>
    /\ UNCHANGED SSE_PORT

\* await client.close().catch(() => {}) settled: client.connect(new transport)
ClientClosed(t) ==
    /\ tool[t].pc = "closing"
    /\ tool' = [tool EXCEPT ![t].pc = "reconnecting"]
    /\ UNCHANGED <<SSE_PORT, currentPort, clientPort>>

\* await client.connect resolved: currentPort = port, and on to client.callTool
ReconnectOk(t) ==
    /\ tool[t].pc = "reconnecting"
    /\ currentPort' = tool[t].found
    /\ clientPort' = tool[t].found
    /\ Send(t, tool[t])
    /\ UNCHANGED SSE_PORT

\* await client.connect rejected: callTool rejects with that error
ReconnectFail(t) ==
    /\ tool[t].pc = "reconnecting"
    /\ \E code \in ErrorCodes :
          tool' = [tool EXCEPT ![t].pc = "thrown", ![t].code = code]
    /\ UNCHANGED <<SSE_PORT, currentPort, clientPort>>

\* await client.callTool resolved: the result is returned
ToolResolves(t) ==
    /\ tool[t].pc = "sent"
    /\ tool' = [tool EXCEPT ![t].pc = "returned"]
    /\ UNCHANGED <<SSE_PORT, currentPort, clientPort>>

\* a catch block that sends the retry at once, before re-discovering
ToolRejects_RetriesAtOnce(t, code) ==
    /\ tool[t].pc = "sent"
    /\ IF ~tool[t].retry /\ tool[t].wf # NoWorkspace /\ isNoServerError(code)
       THEN /\ SSE_PORT' = NoPort
            /\ Send(t, [tool[t] EXCEPT !.retry = TRUE, !.code = code])
       ELSE /\ SSE_PORT' = SSE_PORT
            /\ tool' = [tool EXCEPT ![t].pc = "thrown", ![t].code = code]
    /\ UNCHANGED <<currentPort, clientPort>>

\* a catch block that retries while the error is a 'no server' error
ToolRejects_RetriesAgain(t, code) ==
    /\ tool[t].pc = "sent"
    /\ IF tool[t].wf # NoWorkspace /\ isNoServerError(code)
       THEN /\ SSE_PORT' = NoPort
            /\ tool' = [tool EXCEPT ![t].pc = "discovering", ![t].retry = TRUE,
                                    ![t].code = code]
       ELSE /\ SSE_PORT' = SSE_PORT
            /\ tool' = [tool EXCEPT ![t].pc = "thrown", ![t].code = code]
    /\ UNCHANGED <<currentPort, clientPort>>

\* await client.callTool rejected with err.code = code: the first invocation of
\* a call with a workspaceFolder that fails with a 'no server' error resets the
\* cache and starts discovery again; every other failure is thrown
ToolRejects(t, code) ==
    /\ tool[t].pc = "sent"
    /\ IF ~tool[t].retry /\ tool[t].wf # NoWorkspace /\ isNoServerError(code)
       THEN /\ SSE_PORT' = NoPort
            /\ tool' = [tool EXCEPT ![t].pc = "discovering", ![t].retry = TRUE,
                                    ![t].code = code]
       ELSE /\ SSE_PORT' = SSE_PORT
            /\ tool' = [tool EXCEPT ![t].pc = "thrown", ![t].code = code]
    /\ UNCHANGED <<currentPort, clientPort>>

\* createRemoteApi(client, env, logger) after the startup connect
TlInit ==
    /\ currentPort = DISCOVERY_PORT
    /\ clientPort = DISCOVERY_PORT
    /\ tool = [t \in ToolCalls |-> IdleTool]

\* callTool touches the port cache, the client and its own locals only
restOfTool == <<regVars, srvVars, storeVars, fnVars, discVars, proxyVars, lifeVars, workspaceFolder, maxAttempts, attempt,
                port, bridgePc, connectCalls, connectFails, resets, rediscoveries,
                fetches, thrown, backoffMs, handle, closeCalls>>

TlNext ==
    \/ \E t \in ToolCalls, wf \in Workspaces \cup {NoWorkspace} :
          ToolCall(t, wf) /\ UNCHANGED restOfTool
    \/ \E t \in ToolCalls : ToolDiscoverOk(t) /\ UNCHANGED restOfTool
    \/ \E t \in ToolCalls : ToolDiscoverFail(t) /\ UNCHANGED restOfTool
    \/ \E t \in ToolCalls : ToolDiscoverAgain(t) /\ UNCHANGED restOfTool
    \/ \E t \in ToolCalls : ClientClosed(t) /\ UNCHANGED restOfTool
    \/ \E t \in ToolCalls : ReconnectOk(t) /\ UNCHANGED restOfTool
    \/ \E t \in ToolCalls : ReconnectFail(t) /\ UNCHANGED restOfTool
    \/ \E t \in ToolCalls : ToolResolves(t) /\ UNCHANGED restOfTool
    \/ \E t \in ToolCalls, code \in ErrorCodes : ToolRejects(t, code) /\ UNCHANGED restOfTool

(***************************************************************************)
(* Configuration and error classification: readEnv, isNoServerError        *)
(***************************************************************************)
\* a value of the environment snapshot, or a property of an error: undefined,
\* null, a string or a number, written as its literal
Undefined == [type |-> "undefined", lit |-> ""]
Null == [type |-> "null", lit |-> ""]
Str(s) == [type |-> "string", lit |-> s]

EnvKeys == {"ROUTER_HOST", "ROUTER_PORT", "ROUTER_PATH", "PROXY_RETRY_LIMIT",
            "PROXY_LOG_LEVEL"}

logLevels == {"error", "warn", "info", "debug"}

\* the strings the environment can hold for each key
HostStrings == {"", "127.0.0.1"}
PortStrings == {"", "0", "1", "7000", "65535", "65536", "80.5", "not-a-number"}
PathStrings == {"/stream", "stream"}
RetryStrings == {"", "0", "9", "-1", "1.5", "not-a-number"}
LevelStrings == {"error", "warn", "info", "debug", "verbose"}

Values(strings) == {Undefined} \cup {Str(v) : v \in strings}

RawEnvs ==
    [ROUTER_HOST : Values(HostStrings), ROUTER_PORT : Values(PortStrings),
     ROUTER_PATH : Values(PathStrings), PROXY_RETRY_LIMIT : Values(RetryStrings),
     PROXY_LOG_LEVEL : Values(LevelStrings)]

\* Number(lit) of z.coerce.number(): NaN, or twice the value (so that a half is
\* an integer); the empty string coerces to 0
CoerceNumber(lit) ==
    CASE lit = "" -> [nan |-> FALSE, twice |-> 0]
      [] lit = "0" -> [nan |-> FALSE, twice |-> 0]
      [] lit = "1" -> [nan |-> FALSE, twice |-> 2]
      [] lit = "9" -> [nan |-> FALSE, twice |-> 18]
      [] lit = "-1" -> [nan |-> FALSE, twice |-> -2]
      [] lit = "1.5" -> [nan |-> FALSE, twice |-> 3]
      [] lit = "80.5" -> [nan |-> FALSE, twice |-> 161]
      [] lit = "7000" -> [nan |-> FALSE, twice |-> 14000]
      [] lit = "65535" -> [nan |-> FALSE, twice |-> 131070]
      [] lit = "65536" -> [nan |-> FALSE, twice |-> 131072]
      [] lit = "not-a-number" -> [nan |-> TRUE, twice |-> 0]

\* lit.startsWith("/")
StartsWithSlash(lit) == lit \in {"/", "/sse", "/stream"}

Valid(v) == [ok |-> TRUE, value |-> v, message |-> ""]
Issue(msg) == [ok |-> FALSE, value |-> 0, message |-> msg]

\* z.coerce.number().int().min(lo), with .max(hi) when hasMax: the first issue,
\* or the number
ParseInt(lit, lo, hasMax, hi) ==
    LET n == CoerceNumber(lit) IN
    IF n.nan THEN Issue("Expected number, received nan")
    ELSE IF n.twice % 2 # 0 THEN Issue("Expected integer, received float")
    ELSE IF n.twice < 2 * lo THEN Issue("Number must be greater than or equal")
    ELSE IF hasMax /\ n.twice > 2 * hi THEN Issue("Number must be less than or equal")
    ELSE Valid(n.twice \div 2)

\* a port schema that admits 0
ParseField_PortFromZero(key, v) ==
    CASE key = "ROUTER_HOST" ->
             IF v = Undefined THEN Valid("localhost")
             ELSE IF v.lit = "" THEN Issue("String must contain at least 1 character(s)")
             ELSE Valid(v.lit)
      [] key = "ROUTER_PORT" ->
             IF v = Undefined THEN Valid(60100) ELSE ParseInt(v.lit, 0, TRUE, 65535)
      [] key = "ROUTER_PATH" ->
             IF v = Undefined THEN Valid("/sse")
             ELSE IF ~StartsWithSlash(v.lit) THEN Issue("Invalid input: must start with /")
             ELSE Valid(v.lit)
      [] key = "PROXY_RETRY_LIMIT" ->
             IF v = Undefined THEN Valid(5) ELSE ParseInt(v.lit, 0, FALSE, 0)
      [] key = "PROXY_LOG_LEVEL" ->
             IF v = Undefined THEN Valid("info")
             ELSE IF v.lit \notin logLevels THEN Issue("Invalid enum value")
             ELSE Valid(v.lit)

\* EnvSchema, key by key: .default(...) answers for undefined, otherwise the
\* checks of the key's schema run on the string
ParseField(key, v) ==
    CASE key = "ROUTER_HOST" ->
             IF v = Undefined THEN Valid("localhost")
             ELSE IF v.lit = "" THEN Issue("String must contain at least 1 character(s)")
             ELSE Valid(v.lit)
      [] key = "ROUTER_PORT" ->
             IF v = Undefined THEN Valid(60100) ELSE ParseInt(v.lit, 1, TRUE, 65535)
      [] key = "ROUTER_PATH" ->
             IF v = Undefined THEN Valid("/sse")
             ELSE IF ~StartsWithSlash(v.lit) THEN Issue("Invalid input: must start with /")
             ELSE Valid(v.lit)
      [] key = "PROXY_RETRY_LIMIT" ->
             IF v = Undefined THEN Valid(5) ELSE ParseInt(v.lit, 0, FALSE, 0)
      [] key = "PROXY_LOG_LEVEL" ->
             IF v = Undefined THEN Valid("info")
             ELSE IF v.lit \notin logLevels THEN Issue("Invalid enum value")
             ELSE Valid(v.lit)

\* the keys in the order of the schema's shape
ShapeKeys == <<"ROUTER_HOST", "ROUTER_PORT", "ROUTER_PATH", "PROXY_RETRY_LIMIT",
               "PROXY_LOG_LEVEL">>

NoConfig == [k \in EnvKeys |-> Undefined]
NoResult == [kind |-> "none", data |-> NoConfig, path |-> "", message |-> ""]

\* readEnv: EnvSchema.safeParse(input); the first issue becomes the Error
\* `ENV invalid at ${path}: ${issue.message}`, otherwise parsed.data is returned
readEnv(raw) ==
    LET parsed == [k \in EnvKeys |-> ParseField(k, raw[k])]
        issues == SelectSeq(ShapeKeys, LAMBDA k : ~parsed[k].ok)
    IN IF issues # <<>>
       THEN [kind |-> "throws", data |-> NoConfig, path |-> issues[1],
             message |-> parsed[issues[1]].message]
       ELSE [kind |-> "returns", data |-> [k \in EnvKeys |-> parsed[k].value],
             path |-> "", message |-> ""]

\* a call of readEnv
ReadEnv ==
    /\ envResult.kind = "none"
    /\ envResult' = readEnv(rawEnv)
    /\ UNCHANGED <<rawEnv, err, classified>>

\* the values isNoServerError can be given: null, undefined, a string, or an
\* object with or without a code, a message and a cause that has a code
Codes ==
    {Undefined, Null, [type |-> "number", lit |-> "111"]}
        \cup {Str(c) : c \in {"ENOTFOUND", "ECONNREFUSED", "ECONNRESET", "ETIMEDOUT",
                              "EPIPE", "econnrefused", ""}}

NoObject == [code |-> Undefined, message |-> Undefined, cause |-> Undefined]

Errors ==
    {[type |-> t, props |-> NoObject] : t \in {"null", "undefined", "string"}}
        \cup {[type |-> "object", props |-> o] :
                 o \in [code : Codes,
                        message : {Undefined, Str("fetch failed")},
                        cause : {Undefined, Str("ECONNREFUSED"), Str("ETIMEDOUT")}]}

\* (err as { code?: unknown })?.code
CodeOf(e) == IF e.type = "object" THEN e.props.code ELSE Undefined

\* isNoServerError(err): the code is compared with === against the three strings
isNoServerErrorCall(e) ==
    LET code == CodeOf(e) IN code.type = "string" /\ isNoServerError(code.lit)

\* a call of isNoServerError
Classify ==
    /\ classified = "none"
    /\ classified' = IF isNoServerErrorCall(err) THEN "true" ELSE "false"
    /\ UNCHANGED <<rawEnv, envResult, err>>

\* no call is made
FnQuiet ==
    /\ rawEnv = NoConfig
    /\ envResult = NoResult
    /\ err = [type |-> "undefined", props |-> NoObject]
    /\ classified = "none"

restOfFn == <<regVars, srvVars, storeVars, discVars, bridgeVars, proxyVars, lifeVars,
              toolVars>>

(***************************************************************************)
(* Specifications: one per component, the others at rest                   *)
(***************************************************************************)
Init == RegInit /\ StInit /\ FnQuiet /\ BrQuiet /\ PxInit /\ LcInit /\ TlInit
Next == RegNext
Spec == Init /\ [][Next]_vars

BridgeInit == RegInit /\ StInit /\ FnQuiet /\ BrInit /\ PxInit /\ LcInit /\ TlInit
BridgeNext == BrNext
BridgeSpec == BridgeInit /\ [][BridgeNext]_vars

ProxyInit == RegInit /\ StInit /\ FnQuiet /\ BrQuiet /\ PxInit /\ LcInit /\ TlInit
ProxyNext == PxNext
ProxySpec == ProxyInit /\ [][ProxyNext]_vars

ForwardSpec == ProxyInit /\ [][FwNext]_vars

LifeInit == RegInit /\ StInit /\ FnQuiet /\ BrQuiet /\ PxInit /\ LcInit /\ TlInit
LifeNext == LcNext
LifeSpec == LifeInit /\ [][LifeNext]_vars
FairLifeSpec == LifeInit /\ [][LifeNext]_vars /\ LcFairness

ToolSpec == Init /\ [][TlNext]_vars

ServerSpec == Init /\ [][SrvNext]_vars

DiscoveryInit == RegInit /\ StInit /\ FnQuiet /\ DcInit /\ PxInit /\ LcInit /\ TlInit
DiscoverySpec == DiscoveryInit /\ [][DcNext]_vars

StoreSpec == Init /\ [][StNext]_vars

\* readEnv on every environment snapshot
EnvInit ==
    /\ RegInit /\ StInit /\ BrQuiet /\ PxInit /\ LcInit /\ TlInit
    /\ rawEnv \in RawEnvs
    /\ envResult = NoResult
    /\ err = [type |-> "undefined", props |-> NoObject]
    /\ classified = "none"
EnvNext == ReadEnv /\ UNCHANGED restOfFn
EnvSpec == EnvInit /\ [][EnvNext]_vars

\* isNoServerError on every error value
ErrInit ==
    /\ RegInit /\ StInit /\ BrQuiet /\ PxInit /\ LcInit /\ TlInit
    /\ rawEnv = NoConfig
    /\ envResult = NoResult
    /\ err \in Errors
    /\ classified = "none"
ErrNext == Classify /\ UNCHANGED restOfFn
ErrSpec == ErrInit /\ [][ErrNext]_vars

(***************************************************************************)
(* Session registry: properties                                            *)
(***************************************************************************)
\* the sessions an establishment found registered when it entered
\* closeCurrentConnection (Object.keys(this.transports))
Snapshot(r) == Range(req[r].keys)

C2_AtMostOneSession ==
    /\ Len(transports) <= 1
    /\ Len(transports) = 1 => lastActiveSessionId = transports[1]

C4_QueueDeliveredOnConnect ==
    [][\A r \in Requests :
          (req[r].pc = "connecting" /\ (GetConnected(r) \/ PostConnected(r)))
              => pendingMessages' = <<>>
      ]_vars

C16_NoSessionIs400 ==
    [][\A r \in Requests : \A body \in {NoBody, r} :
          (req[r].pc = "idle" /\ transports = <<>>
              /\ PostAs(r, "/messages", NoSession, body)) =>
              /\ response' = [req |-> r, status |-> 400]
              /\ req'[r].pc = "done"
              /\ UNCHANGED <<transports, lastActiveSessionId, pendingMessages,
                             heartbeats, stream, handled>>
      ]_vars

\* a session came and went and a message is waiting in the queue; the third
\* request, a POST without sessionId, was answered 400 and the queue still holds
\* only the earlier message
C16_Witness ==
    /\ response = [req |-> 3, status |-> 400]
    /\ transports = <<>>
    /\ lastActiveSessionId # NoSession
    /\ pendingMessages = <<2>>

\* C17: the protocol server is closed by no step other than the end of an
\* explicit close(): the steps that close sessions (closeCurrentConnection on
\* behalf of a GET /sse, a promoted POST /sse or a handover shutdown, a stream
\* close event, a stream error event) and the handover's closing of the listener
\* leave it as it was, so that a session registered while no close() has
\* completed finds it open.
C17_OnlyCloseClosesMcpServer ==
    [][/\ mcpServer' # mcpServer =>
              \E r \in Requests : req[r].method = "close" /\ CloseFinish(r)
       /\ \A r \in Requests :
              (req[r].pc = "closing" /\ CloseResume(r)) => mcpServer' = mcpServer
       /\ \A r \in Requests :
              (req[r].pc = "idle" /\ (GetSse(r) \/ Post(r) \/ RequestHandover(r)))
                  => mcpServer' = mcpServer
       /\ \A r \in Requests :
              (req[r].pc = "register" /\ req[r].method = "handover" /\ ShutdownFinish(r))
                  => mcpServer' = mcpServer /\ httpServer' = "closed"
       /\ \A s \in SessionIds :
              (stream[s] \in {"open", "ended"} /\ (StreamClose(s) \/ StreamError(s)))
                  => mcpServer' = mcpServer
      ]_vars

\* the second request was a handover: it was answered 200, session 1 was ended and
\* the listener closed; after a start the next session is registered and the
\* protocol server is still open
C17_Witness ==
    /\ response = [req |-> 2, status |-> 200]
    /\ stream[1] = "ended"
    /\ httpServer = "listening"
    /\ transports = <<2>>
    /\ stream[2] = "open"
    /\ req[3].pc = "done"
    /\ mcpServer = "open"

\* the shutdown begun by POST /request-handover has completed (the listener
\* has closed, the protocol server is left open) and start() has not run since
HandoverCompleted == httpServer = "closed" /\ mcpServer = "open"

\* C39: POST /request-handover answers 200 {success: true} in the step that
\* begins the shutdown, before any session is removed or the listener closes;
\* once the shutdown has completed the session map is empty, the last-active
\* pointer is unset and the server status is 'stopped' until a later start.
C39_StoppedAfterHandover ==
    HandoverCompleted =>
        /\ transports = <<>>
        /\ lastActiveSessionId = NoSession
        /\ serverStatus = "stopped"

\* the streams that were opened have all closed
AllStreamsClosed == \A s \in SessionIds : stream[s] \in {"none", "closed"}

\* C40: every timer recorded in this.heartbeats belongs to a session whose
\* stream was opened and has not closed, and only recorded timers are armed;
\* once every stream has closed no timer is recorded or armed; a timer that is
\* not armed is never armed again: timers are armed only for a newly created
\* session, so a heartbeat cancelled by a failed write does not fire again.
C40_HeartbeatsOfLiveStreams ==
    [][/\ \A s \in heartbeats' : stream'[s] \in {"open", "ended"}
       /\ timers' \subseteq heartbeats'
       /\ AllStreamsClosed' => heartbeats' = {} /\ timers' = {}
       /\ \A s \in timers' \ timers : s = nextId /\ nextId' = nextId + 1
       /\ \A s \in SessionIds :
            (s \in timers /\ HeartbeatFails(s)) => s \notin timers' /\ s \in heartbeats'
      ]_vars

\* session 1 was closed and its close event delivered, which left no timer of
\* it; the heartbeat of session 2, whose stream is open, was cancelled by a
\* failed write and stays recorded
C40_Witness ==
    /\ stream[1] = "closed" /\ 1 \notin heartbeats /\ 1 \notin timers
    /\ stream[2] = "open" /\ 2 \in heartbeats /\ 2 \notin timers
    /\ transports = <<2>>

(***************************************************************************)
(* Reconnect engine: properties                                            *)
(***************************************************************************)
\* C6: as long as no failure took the re-discovery path, connectWithReconnects
\* has made at most maxAttempts + 1 connect attempts; when it fails it has made
\* exactly maxAttempts + 1 of them, every one was rejected, and the error it
\* throws is 'SSE connection failed'; a handle is returned only after a connect
\* that was not rejected.
C6_ExactlyNPlusOneAttempts ==
    /\ rediscoveries = 0 =>
          /\ connectCalls <= maxAttempts + 1
          /\ bridgePc = "failed" =>
                /\ connectCalls = maxAttempts + 1
                /\ connectFails = connectCalls
                /\ thrown = ConnectionFailed
    /\ bridgePc = "returned" => connectFails = connectCalls - 1 /\ thrown = NoError
    /\ thrown # NoError => bridgePc = "failed"

\* retry limit 2, every connect rejected without re-discovery: three attempts,
\* then the failure
C6_Witness ==
    /\ bridgePc = "failed"
    /\ maxAttempts = 2
    /\ rediscoveries = 0
    /\ connectCalls = 3
    /\ connectFails = 3
    /\ thrown = ConnectionFailed

\* C7 (as stated): a 'no server' failure with a cached port resets the cache,
\* takes the next port (discovery with a workspaceFolder, the default port
\* without) and retries without consuming an attempt, with and without a
\* workspaceFolder.
C7_FreeRetryAlways ==
    [][(bridgePc = "connecting" /\ SSE_PORT # NoPort /\ ConnectFail(TRUE)) =>
          /\ SSE_PORT' = NoPort
          /\ attempt' = attempt
          /\ IF workspaceFolder
             THEN bridgePc' = "discovering"
             ELSE port' = DISCOVERY_PORT /\ bridgePc' = "connecting"
      ]_vars

\* C7 (amended): a 'no server' failure with a cached port resets the cache; with
\* a workspaceFolder discovery is re-run and the retry consumes no attempt;
\* without one the port falls back to the default and the failure is treated as
\* any other: the call fails when the budget is used up, else it sleeps the
\* backoff delay and the attempt counter is incremented.
C7_FreeRetryOnlyWithWorkspace ==
    [][/\ (bridgePc = "connecting" /\ SSE_PORT # NoPort /\ ConnectFail(TRUE)) =>
             /\ SSE_PORT' = NoPort
             /\ attempt' = attempt
             /\ IF workspaceFolder
                THEN bridgePc' = "discovering" /\ thrown' = NoError
                ELSE /\ port' = DISCOVERY_PORT
                     /\ IF attempt = maxAttempts
                        THEN bridgePc' = "failed" /\ thrown' = ConnectionFailed
                        ELSE bridgePc' = "backoff"
       /\ (bridgePc = "backoff" /\ BackoffDone) => attempt' = attempt + 1
       /\ (bridgePc = "discovering" /\ \E p \in DiscoveredPorts : DiscoverOk(p)) =>
             attempt' = attempt /\ bridgePc' = "connecting"
      ]_vars

\* no workspaceFolder: one 'no server' failure with a cached port, then success;
\* the handle is returned with one attempt consumed
C7_Witness ==
    /\ bridgePc = "returned"
    /\ ~workspaceFolder
    /\ resets = 1
    /\ connectFails = 1
    /\ connectCalls = 2
    /\ port = DISCOVERY_PORT
    /\ attempt = 1

\* C18: the port of the first client.connect is the cached port when the cache is
\* set at entry; else, with a workspaceFolder, the port discovery returned (and
\* cached), no connect being started before discovery has answered; else
\* env.DISCOVERY_PORT, and then no discovery request has been sent and the cache
\* is still unset.
C18_FirstTargetPort ==
    [][/\ (bridgePc = "entry" /\ Enter) =>
              IF SSE_PORT = NoPort /\ workspaceFolder
              THEN bridgePc' = "discovering" /\ connectCalls' = 0 /\ fetches' = 1
              ELSE connectCalls' = 1
       /\ (connectCalls = 0 /\ connectCalls' = 1) =>
              /\ bridgePc' = "connecting"
              /\ IF SSE_PORT # NoPort
                 THEN /\ bridgePc = "entry"
                      /\ port' = SSE_PORT
                      /\ fetches' = 0
                      /\ SSE_PORT' = SSE_PORT
                 ELSE IF workspaceFolder
                 THEN /\ bridgePc = "discovering"
                      /\ fetches >= 1
                      /\ port' \in DiscoveredPorts
                      /\ SSE_PORT' = port'
                 ELSE /\ bridgePc = "entry"
                      /\ port' = DISCOVERY_PORT
                      /\ fetches' = 0
                      /\ SSE_PORT' = NoPort
      ]_vars

\* a call without workspaceFolder on an empty cache: the first connect goes to
\* env.DISCOVERY_PORT, no discovery request was sent, the cache is unset
C18_Witness ==
    /\ ~workspaceFolder
    /\ bridgePc = "connecting"
    /\ connectCalls = 1
    /\ port = DISCOVERY_PORT
    /\ SSE_PORT = NoPort
    /\ fetches = 0
    /\ resets = 0

\* C29: the last-active pointer is unset or names a session that is registered:
\* when a session is destroyed because its stream closed or errored, the pointer
\* is cleared if it named that session.
C29_LastActiveRegistered ==
    lastActiveSessionId = NoSession \/ Registered(lastActiveSessionId)

\* C30: after a close event or an error event of a session's stream, the session
\* id is neither in the session map nor in the heartbeat map.
C30_CloseOrErrorDestroys ==
    [][\A s \in SessionIds :
          (StreamClose(s) \/ StreamError(s)) =>
              /\ s \notin Range(transports')
              /\ s \notin heartbeats'
      ]_vars

\* the messages held anywhere: queued, taken for a flush, or handled
AllHeld ==
    LET RECURSIVE Cat(_)
        Cat(k) == IF k = 0 THEN pendingMessages
                  ELSE Cat(k - 1) \o req[k].toFlush \o handled[k]
    IN Cat(MaxReq)

\* C31: when a GET /sse establishment has connected while messages are queued, it
\* takes the whole queue, leaving it empty, and hands the messages to the new
\* session one by one in queue order: each step of the flush attempts the first
\* message not yet attempted and goes on with the rest whether or not that
\* message failed; no message is held twice; a failed connect leaves the queue
\* as it was.
C31_QueueFlushedInOrder ==
    [][/\ \A i, j \in 1..Len(AllHeld') : AllHeld'[i] = AllHeld'[j] => i = j
       /\ \A r \in Requests :
          LET s == req[r].session
              Attempted(msg, rest) ==
                  /\ handled'[s] \in {handled[s], Append(handled[s], msg)}
                  /\ \A t \in SessionIds \ {s} : handled'[t] = handled[t]
                  /\ IF rest = <<>>
                     THEN req'[r].pc = "done"
                     ELSE req'[r].pc = "flushing" /\ req'[r].toFlush = rest
                          /\ req'[r].session = s
          IN
          /\ (req[r].pc = "connecting" /\ GetConnected(r) /\ pendingMessages # <<>>) =>
                /\ pendingMessages' = <<>>
                /\ Attempted(Head(pendingMessages), Tail(pendingMessages))
          /\ (req[r].pc = "flushing" /\ req'[r] # req[r]) =>
                /\ pendingMessages' = pendingMessages
                /\ Attempted(Head(req[r].toFlush), Tail(req[r].toFlush))
          /\ (req[r].pc = "connecting" /\ ConnectFailed(r)) =>
                pendingMessages' = pendingMessages
      ]_vars

\* two POSTs were queued while no session existed, then a GET /sse connected:
\* its session has handled the first and the flush stands at the second
C31_Witness ==
    /\ req[3].pc = "flushing"
    /\ req[3].method = "GET"
    /\ req[3].session = 1
    /\ req[3].toFlush = <<2>>
    /\ handled[1] = <<1>>
    /\ pendingMessages = <<>>

\* C32: a call of connectWithReconnects makes a bounded number of connect
\* attempts, at most the retry budget of maxAttempts + 1, and then fails with
\* 'SSE connection failed', also when a workspaceFolder is given, a discovered
\* port is cached and every attempt fails with a 'no server' error.
C32_AttemptsBounded == connectCalls <= maxAttempts + 1

\* the step in which await delay(backoffMs) begins
BackoffStarts == bridgePc # "backoff" /\ bridgePc' = "backoff"

\* C35: the delay slept after the failed attempt with zero-based index k is
\* min(30000, 200 * 2^k) ms: 200 ms after the first, twice the previous delay
\* afterwards, never decreasing and never above 30000; the attempt counter is
\* incremented only after such a delay, and by one; no delay is slept after a
\* failure of the last attempt of the budget.
C35_BackoffDelays ==
    [][/\ BackoffStarts =>
            /\ bridgePc = "connecting"
            /\ backoffMs' = Min(30000, 200 * 2 ^ attempt)
            /\ backoffMs' = IF attempt = 0 THEN 200 ELSE Min(30000, 2 * backoffMs)
            /\ backoffMs <= backoffMs'
            /\ backoffMs' <= 30000
            /\ attempt < maxAttempts
            /\ attempt' = attempt
       /\ ~BackoffStarts => backoffMs' = backoffMs
       /\ attempt' # attempt => bridgePc = "backoff" /\ attempt' = attempt + 1
       /\ bridgePc = "connecting" /\ attempt = maxAttempts => bridgePc' # "backoff"
      ]_vars

\* the ninth failed attempt: the doubled delay would be 51200 ms, 30000 is slept
C35_Witness ==
    /\ bridgePc = "backoff"
    /\ attempt = 8
    /\ backoffMs = 30000
    /\ connectFails = 9

\* C36: connectWithReconnects returns a handle only in the step in which the
\* connect handshake of the client it wraps succeeds: that client is the one of
\* the latest connect, every earlier one failed, and no handle exists in any
\* other outcome; every call of the handle's close() that settles resolves,
\* whether client.close() succeeded or threw, for the first call and for
\* every later one.
C36_HandleOnlyAfterConnect ==
    [][/\ handle' # handle =>
            /\ bridgePc = "connecting" /\ bridgePc' = "returned"
            /\ ~handle.returned
            /\ handle' = Handle(connectCalls)
            /\ connectFails' = connectCalls - 1
       /\ handle'.returned <=> bridgePc' = "returned"
       /\ closeCalls' # <<>> => handle'.returned
       /\ \A i \in 1..Len(closeCalls') : closeCalls'[i].result # "rejected"
       /\ \A i \in 1..Len(closeCalls) :
            /\ closeCalls'[i].settles = closeCalls[i].settles
            /\ closeCalls[i].result = "resolved" => closeCalls'[i] = closeCalls[i]
      ]_vars

\* the handle around the third client, after two failed connects; close() was
\* called twice, client.close() threw in the first call and both calls resolved
C36_Witness ==
    /\ handle = Handle(3)
    /\ connectFails = 2
    /\ Len(closeCalls) = 2
    /\ closeCalls[1] = [settles |-> "throw", result |-> "resolved"]
    /\ closeCalls[2].result = "resolved"

(***************************************************************************)
(* Discovery store: properties                                             *)
(***************************************************************************)
\* no two records of the sequence have the same port
UniqueByPort(store) ==
    \A i, j \in 1..Len(store) : store[i].port = store[j].port => i = j

\* C21: in every reachable state of the store (after any sequence of upserts,
\* replacements from a snapshot, lazy cleanups and sweeps) no two records have
\* the same port.
C21_UniqueByPort == UniqueByPort(discoveryStore)

\* port 60100 was registered, then port 60101, then port 60100 again with
\* another folder: its record was refreshed in place and the store still holds
\* one record per port
C21_Witness ==
    /\ discoveryStore = <<DiscoveryRecord("60100", "/ws/b", 2 * DISCOVERY_SWEEP_INTERVAL_MS),
                          DiscoveryRecord("60101", "/ws/a", DISCOVERY_SWEEP_INTERVAL_MS)>>
    /\ storeResponse.status = "200"
    /\ storeResponse.path = "/register"

\* the record was seen within the TTL before t
Live(r, t) == t - r.lastSeen <= DISCOVERY_TTL_MS

AllLive(store, t) == \A i \in 1..Len(store) : Live(store[i], t)

\* C22: every GET /discovery, every POST /register (on arrival) and every sweep
\* leaves no record in the store whose lastSeen lies more than 120 s back, and a
\* GET /discovery that answers 200 answers with the port of a record that was
\* in the store, is path-equal to the requested folder and was seen within the
\* last 120 s.
C22_ExpiredNeverDiscovered ==
    [][/\ \A wf \in Paths \cup {""} :
              Discovery(wf) =>
                  /\ AllLive(discoveryStore', now)
                  /\ storeResponse'.status = "200" =>
                         \E i \in 1..Len(discoveryStore) :
                             /\ discoveryStore[i].port = storeResponse'.port
                             /\ arePathsEqual(discoveryStore[i].workspaceFolder, wf)
                             /\ Live(discoveryStore[i], now)
       /\ \A h \in Handlers, body \in RegisterBodies, self \in BOOLEAN :
              RegisterArrives(h, body, self) => AllLive(discoveryStore', now)
       /\ Sweep => AllLive(discoveryStore', now)
      ]_vars

\* the record of port 60100 has expired and is still in the store, ahead of a
\* live record for the same folder: the next lookup must not answer it
C22_Witness ==
    /\ Len(discoveryStore) = 2
    /\ discoveryStore[1].port = "60100"
    /\ ~Live(discoveryStore[1], now)
    /\ discoveryStore[2].port = "60101"
    /\ Live(discoveryStore[2], now)
    /\ arePathsEqual(discoveryStore[1].workspaceFolder, discoveryStore[2].workspaceFolder)

\* the positions of the records that are live at t and path-equal to wf
Matches(store, wf, t) ==
    {i \in 1..Len(store) : Live(store[i], t) /\ arePathsEqual(store[i].workspaceFolder, wf)}

\* C23: GET /discovery?workspaceFolder=w with a non-empty w answers 200 with the
\* port of a live record whose folder is path-equal to w when the store holds
\* such a record, and otherwise 404 with a copy of the store's live records.
C23_DiscoveryByPathEquality ==
    [][\A wf \in Paths :
          Discovery(wf) =>
              LET hits == Matches(discoveryStore, wf, now) IN
              IF hits # {}
              THEN /\ storeResponse'.status = "200"
                   /\ \E i \in hits : storeResponse'.port = discoveryStore[i].port
              ELSE /\ storeResponse'.status = "404"
                   /\ storeResponse'.discovery = discoveryStore'
                   /\ discoveryStore' = discoveryRemoveExpired(discoveryStore, now)
      ]_vars

\* two instances are registered for different folders and a lookup was
\* answered with the port of the second
C23_Witness ==
    /\ Len(discoveryStore) = 2
    /\ discoveryStore[1] = DiscoveryRecord("60100", "/ws/b", now)
    /\ discoveryStore[2].port = "60101"
    /\ discoveryStore[2].workspaceFolder = "/ws/a"
    /\ storeResponse.path = "/discovery"
    /\ storeResponse.status = "200"
    /\ storeResponse.port = "60101"

\* the store holds a record of that port
HasPort(store, p) == \E j \in 1..Len(store) : store[j].port = p

\* C24: no step removes a record that was seen within the last 120 s: every
\* record that is live before a step of the store (register, lookup,
\* replacement from a snapshot, sweep) is still in the store after it, with a
\* lastSeen that is not older.
C24_OnlyExpiryRemoves ==
    [][\A i \in 1..Len(discoveryStore) :
          Live(discoveryStore[i], now) =>
              \E j \in 1..Len(discoveryStore') :
                  /\ discoveryStore'[j].port = discoveryStore[i].port
                  /\ discoveryStore'[j].lastSeen >= discoveryStore[i].lastSeen
      ]_vars

\* the records of the store that are not of port p, in order
OtherPorts(store, p) == SelectSeq(store, LAMBDA r : r.port # p)

\* C25: POST /register with a well-formed body is an upsert keyed by port:
\* when the handler has read the body, the store holds exactly one record of
\* the body's port, with the body's workspaceFolder and lastSeen the current
\* time, the records of the other ports are as they were, and the response is
\* 200 with a copy of the whole store; the arrival of the request removed
\* nothing but expired records.
C25_RegisterIsUpsert ==
    [][\A h \in Handlers :
          /\ (reg[h].pc = "idle" /\ reg'[h].pc = "reading") =>
                 discoveryStore' = SelectSeq(discoveryStore, LAMBDA r : Live(r, now))
          /\ (reg[h].pc = "reading" /\ reg'[h].pc = "idle"
                  /\ isRegisterBody(reg[h].body)) =>
                 LET p == reg[h].body.port IN
                 /\ Cardinality({j \in 1..Len(discoveryStore') :
                                    discoveryStore'[j].port = p}) = 1
                 /\ \E j \in 1..Len(discoveryStore') :
                        discoveryStore'[j] =
                            DiscoveryRecord(p, reg[h].body.workspaceFolder, now)
                 /\ OtherPorts(discoveryStore', p) = OtherPorts(discoveryStore, p)
                 /\ storeResponse' = [path |-> "/register", status |-> "200",
                                      port |-> "none", discovery |-> discoveryStore']
      ]_vars

\* a registration of port 60101 for "/ws/b" has just refreshed, in place, the
\* record ahead of an older one of port 60100
C25_Witness ==
    /\ storeResponse.path = "/register"
    /\ storeResponse.status = "200"
    /\ now > 0
    /\ Len(discoveryStore) = 2
    /\ discoveryStore[1] = DiscoveryRecord("60101", "/ws/b", now)
    /\ discoveryStore[2].port = "60100"
    /\ discoveryStore[2].lastSeen < now
    /\ storeResponse.discovery = discoveryStore

(***************************************************************************)
(* Discovery client: properties                                            *)
(***************************************************************************)
\* 404, another non-2xx status, a rejected fetch, or a 2xx body that cannot be
\* parsed
Unsuccessful(res) == res.status # "200" \/ res.data.type = "unparsable"

\* a 2xx body whose port is an integer in 1..65535
ValidAnswer(res) ==
    /\ res.status = "200"
    /\ res.data.type = "number"
    /\ TwiceValue(res.data.lit) % 2 = 0
    /\ (TwiceValue(res.data.lit) \div 2) \in 1..65535

\* C19: requests are sent one at a time (never while one is in flight), the first
\* at the call and every later one only when a 5 s wait has ended; every
\* unsuccessful response (404, another non-2xx status, unparsable body, network
\* failure) starts such a wait and leaves the cache alone; a valid answer ends the
\* call, which returns its port and caches it, so that after k unsuccessful
\* responses and one valid answer exactly k+1 requests have been made and the
\* getter returns the port the call returned.
C19_PollEveryFiveSeconds ==
    [][/\ fetches' # fetches =>
              /\ fetches' = fetches + 1
              /\ resolvePc' = "fetching"
              /\ \/ resolvePc = "idle" /\ fetches = 0
                 \/ resolvePc = "waiting"
       /\ \A res \in DiscoveryResponses :
              (resolvePc = "fetching" /\ FetchSettles(res)) =>
                  /\ fetches = Len(responses) + 1
                  /\ Unsuccessful(res) =>
                         /\ resolvePc' = "waiting"
                         /\ SSE_PORT' = SSE_PORT
                         /\ fetches' = fetches
                  /\ ValidAnswer(res) =>
                         /\ resolvePc' = "returned"
                         /\ resolved' = res.data.lit
                         /\ getSsePort' = resolved'
                         /\ fetches' = Len(responses')
       /\ resolvePc = "returned" => UNCHANGED <<fetches, resolved, SSE_PORT>>
      ]_vars

\* the endpoint answered 404 twice and then 200 with port 60300: three requests
\* were made, the call returned 60300 and the getter returns it
C19_Witness ==
    /\ resolvePc = "returned"
    /\ Len(responses) = 3
    /\ responses[1].status = "404"
    /\ responses[2].status = "404"
    /\ responses[3] = [status |-> "200", data |-> [type |-> "number", lit |-> "60300"]]
    /\ fetches = 3
    /\ resolved = "60300"
    /\ getSsePort = "60300"

\* an integer port in 1..65535, as the cache or a return value holds it
IsPort(p) == TwiceValue(p) % 2 = 0 /\ (TwiceValue(p) \div 2) \in 1..65535

\* C20: the port cache and the value the call returned are each either unset or
\* an integer in 1..65535; a 2xx response whose port is missing, not a number or
\* out of that range starts the 5 s wait like any other failure.
C20_OnlyValidPortCached ==
    /\ SSE_PORT = NoPort \/ IsPort(SSE_PORT)
    /\ resolved = NoPort \/ IsPort(resolved)
    /\ (resolvePc = "waiting" \/ resolvePc = "fetching") => resolved = NoPort

(***************************************************************************)
(* Protocol proxy: properties                                              *)
(***************************************************************************)
\* the positions in the downstream output of the responses to request id
ResponsesFor(id) == {k \in 1..Len(sent) : sent[k].id = id}

\* a request that may arrive next, or whose upstream call may settle, is served
Serving(j) ==
    /\ (rpc[j].pc = "none" /\ (IF j = 1 THEN TRUE ELSE rpc[j - 1].pc # "none"))
           => ENABLED CallToolRequest(j)
    /\ rpc[j].pc = "forwarded" => ENABLED CallToolResolves(j)

\* C5: no request is ever answered twice or before its upstream call settled;
\* a tools/call whose upstream callTool rejected has exactly one response, which
\* is a result (not a JSON-RPC error) with isError = true and the error's
\* message as its text content; and afterwards every other request can still
\* arrive and be answered.
C5_ThrowBecomesToolError ==
    \A id \in CallIds :
        /\ Cardinality(ResponsesFor(id)) <= 1
        /\ rpc[id].pc # "answered" => ResponsesFor(id) = {}
        /\ (rpc[id].pc = "answered" /\ rpc[id].up.settled = "rejected") =>
              /\ \E k \in ResponsesFor(id) :
                    sent[k] = [id |-> id,
                               result |-> [content |->
                                               TextContent(rpc[id].up.error.message),
                                           isError |-> TRUE]]
              /\ \A j \in CallIds : Serving(j)

\* the first call threw 'boom' and was answered with the tool error; a later
\* call on the same session was answered with its upstream result
C5_Witness ==
    /\ rpc[1].pc = "answered"
    /\ rpc[1].up = Rejected("boom")
    /\ rpc[2].pc = "answered"
    /\ rpc[2].up.settled = "resolved"
    /\ Len(sent) = 2
    /\ sent[1].id = 1
    /\ sent[2].id = 2

\* the requests the server has received
Received == {id \in CallIds : rpc[id].pc # "none"}

CallOf(id) == upstream[CHOOSE k \in 1..Len(upstream) : upstream[k].id = id]

\* the name of the RemoteApi operation that matches a method
Matching(method) == RemoteCall(method, "params1").op

\* C12: every answered request whose RemoteApi operation resolved caused exactly
\* one call, of the matching operation, with the request's params (for
\* logging/setLevel: their level) as its first argument, and its response is the
\* upstream result unchanged.
C12_ForwardedVerbatim ==
    \A id \in CallIds :
        (rpc[id].pc = "answered" /\ rpc[id].up.settled = "resolved") =>
            /\ Cardinality({k \in 1..Len(upstream) : upstream[k].id = id}) = 1
            /\ CallOf(id).op = Matching(request[id].method)
            /\ Len(CallOf(id).args) >= 1
            /\ CallOf(id).args[1] = IF request[id].method = "logging/setLevel"
                                    THEN Level(request[id].params)
                                    ELSE request[id].params
            /\ \E k \in ResponsesFor(id) :
                  sent[k] = [id |-> id, result |-> rpc[id].up.value]

(***************************************************************************)
(* Tool bridge: properties                                                 *)
(***************************************************************************)
\* C13: every step that invokes client.callTool for a call that carries a
\* workspaceFolder does so on a connection bound to that workspace (the client
\* is connected to the port discovery answers for it), whatever the connection
\* was bound to when the call came in.
C13_ForwardedOnWorkspaceConnection ==
    [][\A t \in ToolCalls :
          (tool'[t].sends = tool[t].sends + 1 /\ tool'[t].wf # NoWorkspace) =>
              clientPort' = PortOf(tool'[t].wf)
      ]_vars

\* C14: a call invokes client.callTool at most twice, and a second time only in
\* its retry; when the first invocation of a call with a workspaceFolder fails
\* with a 'no server' error, the port cache is reset and discovery starts again,
\* and the retry is sent only by the step that completes that re-ensuring (a
\* discovered or cached port equal to currentPort, or a successful reconnect);
\* every other failure, the failure of the retry included, is thrown at once.
C14_RetryOnce ==
    [][\A t \in ToolCalls :
          /\ tool'[t].sends <= 2
          /\ tool'[t].sends = 2 => tool'[t].retry /\ tool'[t].wf # NoWorkspace
          /\ (tool[t].pc = "sent" /\ tool'[t].pc \notin {"sent", "returned"}) =>
                IF ~tool[t].retry /\ tool[t].wf # NoWorkspace
                   /\ isNoServerError(tool'[t].code)
                THEN /\ SSE_PORT' = NoPort
                     /\ tool'[t].pc = "discovering"
                     /\ tool'[t].retry
                     /\ tool'[t].sends = 1
                ELSE /\ tool'[t].pc = "thrown"
                     /\ tool'[t].sends = tool[t].sends
                     /\ SSE_PORT' = SSE_PORT
          /\ (tool[t].retry /\ tool'[t].sends = tool[t].sends + 1) =>
                /\ tool[t].pc \in {"discovering", "discoveryWait", "reconnecting"}
                /\ tool[t].sends = 1
                /\ currentPort' = tool'[t].found
          /\ tool[t].pc = "thrown" => tool'[t] = tool[t]
      ]_vars

\* after a call for wsA had returned, a call for wsB failed with a 'no server'
\* error, re-discovered, reconnected to the port of wsB, was sent again, failed
\* again and threw
C14_Witness ==
    /\ tool[1].pc = "returned"
    /\ tool[1].wf = "wsA"
    /\ tool[2].pc = "thrown"
    /\ tool[2].wf = "wsB"
    /\ tool[2].retry
    /\ tool[2].sends = 2
    /\ tool[2].code = "undefined"
    /\ currentPort = PortOf("wsB")
    /\ clientPort = PortOf("wsB")

\* the calls that are inside ensureConnectedForWorkspaceFolder: discovering, or
\* closing and reconnecting the client
Ensuring == {t \in ToolCalls :
                tool[t].pc \in {"discovering", "discoveryWait", "closing", "reconnecting"}}

\* C33: concurrent tool calls do not re-discover independently: at most one call
\* at a time is inside the discovery-and-reconnect sequence, and while one call
\* has the client closed or reconnecting no other call's request is outstanding
\* on it.
C33_OneRediscoveryAtATime ==
    /\ Cardinality(Ensuring) <= 1
    /\ \A t, u \in ToolCalls :
          (tool[t].pc \in {"closing", "reconnecting"} /\ u # t) => tool[u].pc # "sent"

\* call t sends its retry in this step
RetrySent(t) == tool[t].retry /\ tool'[t].sends = tool[t].sends + 1

LifeState ==
    IF exited THEN "Terminated"
    ELSE IF shuttingDown THEN "ShuttingDown"
    ELSE IF main = "running" THEN "Running"
    ELSE "Starting"

\* C8: whatever triggers fire, the body of graceful runs at most once, and the
\* lifecycle state only moves Running -> ShuttingDown -> Terminated.
C8_ShutdownOnce ==
    [][/\ bodyRuns' <= 1
       /\ bodyRuns' >= bodyRuns
       /\ LifeState = "Running" => LifeState' \in {"Running", "ShuttingDown"}
       /\ LifeState = "ShuttingDown" => LifeState' \in {"ShuttingDown", "Terminated"}
       /\ LifeState = "Terminated" => LifeState' = "Terminated"
       /\ (LifeState = "Running" /\ LifeState' = "ShuttingDown") => bodyRuns' = 1
      ]_vars

\* several triggers fired, the body ran once, the process has terminated
C8_Witness ==
    /\ exited
    /\ gracefulCalls >= 3
    /\ bodyRuns = 1
    /\ onceSignals # Signals

\* C9: once the shutdown routine has started the process eventually exits, with
\* code 0, also when closing the server or the upstream handle throws or never
\* completes.
C9_ShutdownExitsZero == shuttingDown ~> (exited /\ exitCode = 0)

\* server.close() never completed and the force-exit timer ended the process
C9_Witness ==
    /\ exited
    /\ exitCode = 0
    /\ graceful = "closingServer"
    /\ awaiting = "hang"

\* C10: after a startup failure there is exactly one logged line, 'startup
\* failed: <message>' with the message of the error; the shutdown triggers are
\* never installed and the process is never Running or ShuttingDown; if it has
\* exited, the code is 1 and the upstream handle, if it had been acquired, was
\* closed once; a process that started up logs no such line.
C10_StartupFailure ==
    /\ main = "failClosing" <=> errorLog # <<>>
    /\ main = "failClosing" =>
          /\ Len(errorLog) = 1
          /\ errorLog[1].level = "error"
          /\ errorLog[1].prefix = "startup failed: "
          /\ errorLog[1].msg \in Messages \cup {ConnectionFailed}
          /\ ~remoteClose => errorLog[1].msg = ConnectionFailed
          /\ ~listeners /\ onceSignals = {} /\ ~parentWatch
          /\ ~shuttingDown /\ bodyRuns = 0
          /\ exitCode \in {NoCode, 1}
          /\ remoteCloseCalls <= 1
          /\ exited => /\ exitCode = 1
                       /\ remoteClose => remoteCloseCalls = 1
    /\ (exited /\ exitCode = 1) => main = "failClosing"

\* the proxy construction failed after the handle was acquired: one line, the
\* handle closed, exit code 1
C10_Witness ==
    /\ exited
    /\ exitCode = 1
    /\ remoteClose
    /\ remoteCloseCalls = 1
    /\ errorLog = <<StartupFailedLine("boom")>>

\* C26: while the process is Running every trigger is wired (the four signal
\* listeners, the stdin and stdout listeners with the error traps, the parent
\* poll), and a step in which one of them calls graceful (SIGINT, SIGTERM,
\* SIGHUP, SIGPIPE or an error on stdout, end, close or error of stdin, the
\* parent found gone, an unhandled rejection or uncaught exception) moves the
\* process to ShuttingDown with the shutdown routine started.
C26_TriggersShutDown ==
    [][LifeState = "Running" =>
          /\ onceSignals = Signals
          /\ listeners
          /\ parentWatch
          /\ gracefulCalls' # gracefulCalls =>
                 /\ LifeState' = "ShuttingDown"
                 /\ bodyRuns' = 1
                 /\ graceful' = "closingServer"
      ]_vars

\* SIGHUP, and nothing else so far, has moved the running process to
\* ShuttingDown
C26_Witness ==
    /\ LifeState = "ShuttingDown"
    /\ main = "running"
    /\ gracefulCalls = 1
    /\ onceSignals = Signals \ {"SIGHUP"}
    /\ graceful = "closingServer"

(***************************************************************************)
(* Configuration and error classification: properties                      *)
(***************************************************************************)
\* the number d is the value of the string lit
IsNumberOf(lit, d) == ~CoerceNumber(lit).nan /\ CoerceNumber(lit).twice = 2 * d

\* the string is not a number, or not an integer, or below lo, or (when hasMax)
\* above hi
OutOfRange(lit, lo, hasMax, hi) ==
    \/ CoerceNumber(lit).nan
    \/ CoerceNumber(lit).twice % 2 # 0
    \/ CoerceNumber(lit).twice < 2 * lo
    \/ hasMax /\ CoerceNumber(lit).twice > 2 * hi

\* the key is present in the snapshot with a value outside its range
Offending(key, v) ==
    /\ v # Undefined
    /\ CASE key = "ROUTER_HOST" -> v.lit = ""
         [] key = "ROUTER_PORT" -> OutOfRange(v.lit, 1, TRUE, 65535)
         [] key = "ROUTER_PATH" -> ~StartsWithSlash(v.lit)
         [] key = "PROXY_RETRY_LIMIT" -> OutOfRange(v.lit, 0, FALSE, 0)
         [] key = "PROXY_LOG_LEVEL" -> v.lit \notin {"error", "warn", "info", "debug"}

\* C27: readEnv either returns a complete configuration, in which every absent
\* key has its default (localhost, 60100, /sse, 5, info) and every present key
\* has the value given, inside its range (port an integer in 1..65535, path
\* starting with '/', retry limit an integer >= 0, log level one of the four),
\* or throws an error whose path names a key that is present with a value
\* outside its range, and returns no configuration.
C27_ResolveDefaultsOrFails ==
    envResult.kind # "none" =>
        \/ /\ envResult.kind = "returns"
           /\ LET d == envResult.data IN
              /\ IF rawEnv.ROUTER_HOST = Undefined
                 THEN d.ROUTER_HOST = "localhost"
                 ELSE d.ROUTER_HOST = rawEnv.ROUTER_HOST.lit /\ d.ROUTER_HOST # ""
              /\ IF rawEnv.ROUTER_PORT = Undefined
                 THEN d.ROUTER_PORT = 60100
                 ELSE /\ d.ROUTER_PORT \in 1..65535
                      /\ IsNumberOf(rawEnv.ROUTER_PORT.lit, d.ROUTER_PORT)
              /\ IF rawEnv.ROUTER_PATH = Undefined
                 THEN d.ROUTER_PATH = "/sse"
                 ELSE /\ d.ROUTER_PATH = rawEnv.ROUTER_PATH.lit
                      /\ StartsWithSlash(d.ROUTER_PATH)
              /\ IF rawEnv.PROXY_RETRY_LIMIT = Undefined
                 THEN d.PROXY_RETRY_LIMIT = 5
                 ELSE /\ d.PROXY_RETRY_LIMIT \in Nat
                      /\ IsNumberOf(rawEnv.PROXY_RETRY_LIMIT.lit, d.PROXY_RETRY_LIMIT)
              /\ IF rawEnv.PROXY_LOG_LEVEL = Undefined
                 THEN d.PROXY_LOG_LEVEL = "info"
                 ELSE /\ d.PROXY_LOG_LEVEL = rawEnv.PROXY_LOG_LEVEL.lit
                      /\ d.PROXY_LOG_LEVEL \in {"error", "warn", "info", "debug"}
        \/ /\ envResult.kind = "throws"
           /\ envResult.data = NoConfig
           /\ envResult.path \in EnvKeys
           /\ Offending(envResult.path, rawEnv[envResult.path])
           /\ envResult.message # ""

\* a snapshot with the port 7000, the retry limit 9 and the log level debug,
\* the host and the path absent: the configuration has the defaults for the
\* absent keys and the values given for the others
C27_Witness ==
    /\ rawEnv = [ROUTER_HOST |-> Undefined, ROUTER_PORT |-> Str("7000"),
                 ROUTER_PATH |-> Undefined, PROXY_RETRY_LIMIT |-> Str("9"),
                 PROXY_LOG_LEVEL |-> Str("debug")]
    /\ envResult.kind = "returns"
    /\ envResult.data = [ROUTER_HOST |-> "localhost", ROUTER_PORT |-> 7000,
                         ROUTER_PATH |-> "/sse", PROXY_RETRY_LIMIT |-> 9,
                         PROXY_LOG_LEVEL |-> "debug"]

\* C28: isNoServerError(err) is true exactly when err is an object whose code
\* is the string ENOTFOUND, ECONNREFUSED or ECONNRESET; it is false for every
\* other code, for an object without a code, and for null and undefined.
C28_NoServerExactlyThreeCodes ==
    classified # "none" =>
        (classified = "true" <=>
            /\ err.type = "object"
            /\ err.props.code \in {Str("ENOTFOUND"), Str("ECONNREFUSED"), Str("ECONNRESET")})

\* an error with the code ECONNRESET was classified as 'no server'
C28_Witness ==
    /\ err = [type |-> "object",
              props |-> [code |-> Str("ECONNRESET"), message |-> Str("fetch failed"),
                         cause |-> Undefined]]
    /\ classified = "true"

\* the steps of the body of graceful when its two close calls settle as o1, o2
ShutdownOrder(o1, o2) ==
    <<"stopWatchers", "armForceExit", "closeServer", o1, "closeRemote", o2, "scheduleExit">>

\* C37: what the shutdown routine has done is always an initial part of:
\* watchers stopped, force-exit timer armed, server close attempted, upstream
\* close attempted, exit scheduled; when the server close throws and the
\* routine resumes, the upstream close is attempted in that step; once the
\* watchers are stopped the parent poll is not armed again, so it cannot fire;
\* the process exits by the scheduled exit only after the whole order, with
\* code 0.
C37_ShutdownOrder ==
    [][/\ \E o1, o2 \in {"ok", "throw"} :
            shutdownSteps' = SubSeq(ShutdownOrder(o1, o2), 1, Len(shutdownSteps'))
       /\ shutdownSteps' # shutdownSteps =>
            /\ Len(shutdownSteps') > Len(shutdownSteps)
            /\ shutdownSteps = SubSeq(shutdownSteps', 1, Len(shutdownSteps))
       /\ shutdownSteps' # <<>> => shuttingDown' /\ ~parentWatch' /\ forceExit'
       /\ shuttingDown' <=> shutdownSteps' # <<>>
       /\ (graceful = "closingServer" /\ awaiting = "throw" /\ graceful' # graceful) =>
            /\ remoteCloseCalls' = remoteCloseCalls + 1
            /\ graceful' = "closingRemote"
            /\ shutdownSteps' = shutdownSteps \o <<"throw", "closeRemote">>
       /\ remoteCloseCalls' # remoteCloseCalls /\ shuttingDown =>
            graceful = "closingServer" /\ awaiting \in {"ok", "throw"}
       /\ ParentGone => ~shuttingDown /\ shutdownSteps = <<>>
       /\ (graceful = "exitScheduled" /\ exited' /\ ~exited) =>
            /\ exitCode' = 0
            /\ \E o1, o2 \in {"ok", "throw"} : shutdownSteps = ShutdownOrder(o1, o2)
      ]_vars

\* the server close threw, the upstream close was attempted and resolved, and
\* the process left through the scheduled exit
C37_Witness ==
    /\ shutdownSteps = ShutdownOrder("throw", "ok")
    /\ remoteCloseCalls = 1
    /\ exited /\ exitCode = 0
    /\ ~parentWatch

\* createProxyServer and the wiring of stdio, in the order of the source
StartupOrder == <<"ping", "createServer", "registerHandlers", "attachStdio">>

\* C38: createProxyServer calls remote.ping() first: the server is created, the
\* handlers are registered and stdio is attached only after it, in this order;
\* when the ping fails the step goes to the catch block of the startup, which
\* logs "startup failed", calls remoteClose and exits with code 1, and then no
\* server exists, no handler is registered, nothing is attached to stdio and
\* no listener is installed.
C38_PingBeforeServer ==
    [][/\ startupSteps' = SubSeq(StartupOrder, 1, Len(startupSteps'))
       /\ server' => startupSteps' = StartupOrder
       /\ main' \in {"creating"} => startupSteps' = <<"ping">> /\ ~server'
       /\ (main = "creating" /\ main' \notin {"creating", "attaching"}) =>
            /\ main' = "failClosing"
            /\ ~server'
            /\ startupSteps' = <<"ping">>
            /\ errorLog' = Append(errorLog, errorLog'[Len(errorLog')])
            /\ errorLog'[Len(errorLog')].prefix = "startup failed: "
            /\ remoteCloseCalls' = remoteCloseCalls + 1
       /\ (main = "failClosing" /\ startupSteps = <<"ping">>) =>
            /\ UNCHANGED <<startupSteps, server, listeners, onceSignals, parentWatch, main>>
            /\ exited' /\ ~exited => exitCode' = 1
      ]_vars

\* the ping failed: the process left through the catch block with code 1, after
\* one log line and one call of remoteClose, without a server
C38_Witness ==
    /\ exited /\ exitCode = 1
    /\ startupSteps = <<"ping">>
    /\ ~server /\ ~listeners
    /\ Len(errorLog) = 1
    /\ remoteCloseCalls = 1

====
